---- MODULE Spec2Model ----
(***************************************************************************)
(* TAM (Terminal Activity Management): the activity tracker, the Claude    *)
(* process-state detector and the cross-window manager, as a state machine.*)
(*                                                                         *)
(* One owner = one VS Code window running one ActivityTracker, one         *)
(* WindowManager and one module-level detector memory (prevStates).        *)
(* All owners share globalState and the clock.                             *)
(***************************************************************************)
EXTENDS Integers, Sequences, FiniteSets, TLC

\* ------------------------------------------------------------------------
\* Program constants (src/src/config.ts)
\* ------------------------------------------------------------------------
TREE_REFRESH_DEBOUNCE_MS == 300
STALE_WINDOW_THRESHOLD_MS == 60000
APPROVAL_TIMEOUT_MS == 30000
CPU_GENERATING_THRESHOLD == 5

\* ------------------------------------------------------------------------
\* Bounds of the model
\* ------------------------------------------------------------------------
\* registerTerminal is not called once creationIndex has reached MaxIdx
MaxIdx == 2

\* ------------------------------------------------------------------------
\* Values
\* ------------------------------------------------------------------------
\* JavaScript's undefined, for string-valued optional fields
UNDEF == "<undefined>"
\* processId: number | undefined.  undefined is modelled as 0: the code only
\* ever tests a process id for truthiness (activityTracker.ts:162, :236).
NoPid == 0

Owners == {"w1", "w2", "w3"}
Terminals == {"t1", "t2"}
TermNames == {"zsh", "bash"}
\* what the user can type into the rename box (commands.ts trims it first)
NameInputs == {"", "mine"}
\* process ids the host can hand out for a terminal's shell
TermPids == {10, 20}
\* working directories the OS can report, as sequences of path segments;
\* the empty sequence is "could not be resolved"
NoCwd == <<>>
Cwds == {<<"home", "proj">>}
Prompts == {UNDEF, "fix it"}

WindowName(w) == IF w = "w1" THEN "alpha" ELSE IF w = "w2" THEN "beta" ELSE "gamma"

\* path.basename: the last path segment
Basename(cwd) == cwd[Len(cwd)]

\* record id `${windowId}:${idx}`
RecordId(w, idx) == <<w, idx>>

\* ------------------------------------------------------------------------
\* Command lines, as sequences of characters
\* ------------------------------------------------------------------------
LowerOf(c) ==
    CASE c = "C" -> "c"
      [] c = "L" -> "l"
      [] c = "A" -> "a"
      [] c = "U" -> "u"
      [] c = "D" -> "d"
      [] c = "E" -> "e"
      [] OTHER -> c

toLowerCase(s) == [i \in 1..Len(s) |-> LowerOf(s[i])]

Letters == {"a","b","c","d","e","f","g","h","i","j","k","l","m","n","o","p",
            "q","r","s","t","u","v","w","x","y","z"}
Digits == {"0","1","2","3","4","5","6","7","8","9"}
\* \w of a JavaScript regular expression (on lower-cased text)
IsWordChar(c) == c \in Letters \cup Digits \cup {"_"}
\* \s of a JavaScript regular expression (the ones a ps line can hold)
IsSpace(c) == c \in {" ", "\t"}

\* s holds sub starting at position i
MatchAt(s, sub, i) ==
    /\ i >= 1
    /\ i + Len(sub) - 1 <= Len(s)
    /\ \A k \in 1..Len(sub) : s[i + k - 1] = sub[k]

\* String.prototype.includes
includes(s, sub) == \E i \in 1..(Len(s) + 1) : MatchAt(s, sub, i)

\* \b at the gap before position i (i in 1..Len(s)+1)
WordBoundary(s, i) ==
    LET before == i > 1 /\ IsWordChar(s[i - 1])
        after  == i <= Len(s) /\ IsWordChar(s[i])
    IN before # after

\* /\bWORD\b/.test(s)
HasWord(s, word) ==
    \E i \in 1..(Len(s) + 1) :
        /\ MatchAt(s, word, i)
        /\ WordBoundary(s, i)
        /\ WordBoundary(s, i + Len(word))

SearchTools ==
    { <<"g","r","e","p">>, <<"r","g">>, <<"a","g">>, <<"f","i","n","d">>,
      <<"l","s">>, <<"c","a","t">>, <<"h","e","a","d">>, <<"t","a","i","l">> }

ClaudeWord == <<"c","l","a","u","d","e">>
DotClaudeSlash == <<".">> \o ClaudeWord \o <<"/">>

\* /(?:^|\/)claude(?:\s|$)/.test(s)
MatchesBinary(s) ==
    \E i \in 1..(Len(s) + 1) :
        /\ MatchAt(s, ClaudeWord, i)
        /\ (i = 1 \/ s[i - 1] = "/")
        /\ (i + 6 = Len(s) + 1 \/ IsSpace(s[i + 6]))

isClaudeProcess(command) ==
    LET lower == toLowerCase(command)
    IN  IF includes(lower, DotClaudeSlash) THEN FALSE
        ELSE IF \E w \in SearchTools : HasWord(lower, w) THEN FALSE
        ELSE MatchesBinary(lower)

SkipFlag == <<"-","-","d","a","n","g","e","r","o","u","s","l","y","-",
              "s","k","i","p","-","p","e","r","m","i","s","s","i","o","n","s">>

\* the command lines the sampled process tables use
CmdShell == <<"-","z","s","h">>
CmdClaude == ClaudeWord
CmdClaudeSkip == ClaudeWord \o <<" ">> \o SkipFlag
CmdNodeClaude == <<"n","o","d","e"," ","/","o","p","t","/">> \o ClaudeWord
\* claude -p find
CmdClaudeFind == ClaudeWord \o <<" ","-","p"," ","f","i","n","d">>
CmdGrepClaude == <<"g","r","e","p"," ">> \o ClaudeWord
CmdSnapshot == <<"/","b","i","n","/","z","s","h"," ","~","/">> \o DotClaudeSlash
                 \o <<"s","h","e","l","l","-","s","n","a","p","s","h","o","t","s","/","x">>
CmdMcp(n) == <<"n","o","d","e"," ","~","/">> \o DotClaudeSlash
               \o <<"m","c","p","-","s","e","r","v","e","r","s","/">> \o n \o <<"/","i">>

\* ------------------------------------------------------------------------
\* Process tables (one `ps` sample) and the walk over them
\* ------------------------------------------------------------------------
\* a ProcessInfo that stands for "no process"
NoProc == [pid |-> 0, ppid |-> 0, cpu |-> 0, rss |-> 0, etime |-> UNDEF, command |-> <<>>]

Proc(pid, ppid, cpu, rss, etime, command) ==
    [pid |-> pid, ppid |-> ppid, cpu |-> cpu, rss |-> rss, etime |-> etime, command |-> command]

\* childrenOf.get(p): the pids whose parent is p, in sample order (<<>> when none)
ChildrenOf(procs, p) ==
    LET sel == SelectSeq(procs, LAMBDA q : q.ppid = p)
    IN  [i \in 1..Len(sel) |-> sel[i].pid]

\* processMap.get(pid): a later line of the sample overrides an earlier one
ProcOf(procs, pid) ==
    LET idxs == {i \in 1..Len(procs) : procs[i].pid = pid}
    IN  IF idxs = {} THEN NoProc
        ELSE procs[CHOOSE i \in idxs : \A j \in idxs : j <= i]

RECURSIVE findClaudeDescendant(_, _)
RECURSIVE findAmongChildren(_, _, _)

\* the loop of findClaudeDescendant over `children`, from position i
findAmongChildren(procs, children, i) ==
    IF i > Len(children) THEN NoProc
    ELSE LET proc == ProcOf(procs, children[i])
         IN  IF proc # NoProc /\ isClaudeProcess(proc.command) THEN proc
             ELSE LET found == findClaudeDescendant(procs, children[i])
                  IN  IF found # NoProc THEN found
                      ELSE findAmongChildren(procs, children, i + 1)

findClaudeDescendant(procs, pid) ==
    findAmongChildren(procs, ChildrenOf(procs, pid), 1)

McpPrefix == DotClaudeSlash \o <<"m","c","p","-","s","e","r","v","e","r","s","/">>

\* command.match(/\.claude\/mcp-servers\/([^/]+)\//): the captured name, <<>> when
\* there is no match
McpName(command) ==
    LET n == Len(command)
        \* the capture starting at s: the run of non-slash characters up to the next "/"
        EndOf(s) == IF \E j \in s..n : command[j] = "/"
                    THEN CHOOSE j \in s..n : command[j] = "/" /\ \A k \in s..(j - 1) : command[k] # "/"
                    ELSE 0
        Hits == {i \in 1..n : MatchAt(command, McpPrefix, i)
                               /\ EndOf(i + Len(McpPrefix)) > i + Len(McpPrefix)}
    IN  IF Hits = {} THEN <<>>
        ELSE LET i == CHOOSE h \in Hits : \A g \in Hits : h <= g
                 s == i + Len(McpPrefix)
             IN  SubSeq(command, s, EndOf(s) - 1)

Range(f) == {f[i] : i \in DOMAIN f}

RECURSIVE walk(_, _, _)
RECURSIVE walkChildren(_, _, _, _)

\* walkChildren without the test that the name is not yet in the list
walkChildren_NoDedupe(procs, children, i, acc) ==
    IF i > Len(children) THEN acc
    ELSE LET proc == ProcOf(procs, children[i])
             name == IF proc = NoProc THEN <<>> ELSE McpName(proc.command)
             acc1 == [count |-> acc.count + 1,
                      mcpServers |-> IF name # <<>>
                                     THEN Append(acc.mcpServers, name)
                                     ELSE acc.mcpServers]
         IN  walkChildren(procs, children, i + 1, walk(procs, children[i], acc1))

\* the loop of countDescendants' walk over `children`, from position i;
\* acc is {count, mcpServers} so far
walkChildren(procs, children, i, acc) ==
    IF i > Len(children) THEN acc
    ELSE LET proc == ProcOf(procs, children[i])
             name == IF proc = NoProc THEN <<>> ELSE McpName(proc.command)
             acc1 == [count |-> acc.count + 1,
                      mcpServers |-> IF name # <<>> /\ name \notin Range(acc.mcpServers)
                                     THEN Append(acc.mcpServers, name)
                                     ELSE acc.mcpServers]
         IN  walkChildren(procs, children, i + 1, walk(procs, children[i], acc1))

walk(procs, pid, acc) == walkChildren(procs, ChildrenOf(procs, pid), 1, acc)

countDescendants(procs, rootPid) ==
    walk(procs, rootPid, [count |-> 0, mcpServers |-> <<>>])

\* ------------------------------------------------------------------------
\* The samples a tick can see.  Under each terminal shell the sample holds
\* one of these subtrees (child pids are root+1, root+2, ...).
\* ------------------------------------------------------------------------
Shapes == {"absent", "low", "edge", "busy", "decoy", "deep", "moved", "nested", "viaNode",
           "worded", "servers", "swapped"}

Subtree(root, shape) ==
    CASE shape = "absent" -> <<>>
      [] shape = "low"    -> << Proc(root + 1, root, 0, 100, "01:00", CmdClaude) >>
      [] shape = "edge"   -> << Proc(root + 1, root, CPU_GENERATING_THRESHOLD, 100, "01:00", CmdClaude) >>
      [] shape = "busy"   -> << Proc(root + 1, root, CPU_GENERATING_THRESHOLD + 1, 100, "01:00", CmdClaude) >>
      [] shape = "decoy"  -> << Proc(root + 1, root, 9, 100, "00:01", CmdGrepClaude),
                                Proc(root + 2, root, 9, 100, "00:01", CmdSnapshot) >>
      [] shape = "deep"   -> << Proc(root + 1, root, 0, 100, "02:00", CmdShell),
                                Proc(root + 2, root + 1, 0, 200, "01:30", CmdClaudeSkip),
                                Proc(root + 3, root + 2, 0, 50, "01:00", CmdMcp(<<"g","i","t">>)),
                                Proc(root + 4, root + 2, 0, 50, "01:00", CmdMcp(<<"g","i","t">>)) >>
      \* the process of "low" after a restart: the same, under another pid
      [] shape = "moved"  -> << Proc(root + 2, root, 0, 100, "01:00", CmdClaude) >>
      \* a shell child that runs claude, listed before a claude that is a direct child
      [] shape = "nested" -> << Proc(root + 1, root, 0, 100, "02:00", CmdShell),
                                Proc(root + 2, root + 1, 0, 100, "01:00", CmdClaude),
                                Proc(root + 3, root, 0, 100, "01:00", CmdClaude) >>
      [] shape = "viaNode" -> << Proc(root + 1, root, 0, 100, "01:00", CmdNodeClaude) >>
      [] shape = "worded" -> << Proc(root + 1, root, 0, 100, "01:00", CmdClaudeFind) >>
      \* claude with a server that starts another one, a second copy and a plain child
      [] shape = "servers" -> << Proc(root + 1, root, 0, 100, "01:00", CmdClaude),
                                 Proc(root + 2, root + 1, 0, 50, "01:00", CmdMcp(<<"g","i","t">>)),
                                 Proc(root + 3, root + 2, 0, 50, "01:00", CmdMcp(<<"f","s">>)),
                                 Proc(root + 4, root + 1, 0, 50, "01:00", CmdMcp(<<"g","i","t">>)),
                                 Proc(root + 5, root + 1, 0, 50, "01:00", CmdShell) >>
      \* the same tree after its servers were replaced by others, as many as before
      [] shape = "swapped" -> << Proc(root + 1, root, 0, 100, "01:00", CmdClaude),
                                 Proc(root + 2, root + 1, 0, 50, "01:00", CmdMcp(<<"d","b">>)),
                                 Proc(root + 3, root + 2, 0, 50, "01:00", CmdMcp(<<"g","i","t">>)),
                                 Proc(root + 4, root + 1, 0, 50, "01:00", CmdMcp(<<"d","b">>)),
                                 Proc(root + 5, root + 1, 0, 50, "01:00", CmdShell) >>

\* a whole sample: both shells, then what runs under each
Sample(shape10, shape20) ==
    << Proc(10, 1, 0, 10, "05:00", CmdShell), Proc(20, 1, 0, 10, "05:00", CmdShell) >>
       \o Subtree(10, shape10) \o Subtree(20, shape20)

\* the subtrees the samples hold under the second shell
SecondShapes == {"absent", "low"}


\* ------------------------------------------------------------------------
\* The detector (detectClaudeStates and its module-level memory prevStates)
\* ------------------------------------------------------------------------
\* prevStates.get(pid) when the map has no entry
NoMem == [state |-> UNDEF, since |-> 0]

\* `info` of a ClaudeDetectResult when the field is left out
NoInfo == [pid |-> 0, cwd |-> NoCwd, etime |-> UNDEF, skipPermissions |-> FALSE, cpu |-> 0,
           rss |-> 0, lastPrompt |-> UNDEF, mcpServers |-> <<>>, childProcessCount |-> 0]

\* getAllProcesses() threw (ps timed out or exited non-zero)
PsFailed == [ok |-> FALSE, key |-> <<"absent", "absent">>]
\* getAllProcesses() returned the sample Sample(key[1], key[2])
PsOk(key) == [ok |-> TRUE, key |-> key]

\* findClaudeDescendant and the ClaudeInfo built from it, on every sample and root,
\* computed once
FoundTable ==
    { <<a, b, p, findClaudeDescendant(Sample(a, b), p)>> :
         a \in Shapes, b \in SecondShapes, p \in TermPids }
Found(key, pid) ==
    (CHOOSE e \in FoundTable : e[1] = key[1] /\ e[2] = key[2] /\ e[3] = pid)[4]

MemGet(mem, pid) == IF pid \in DOMAIN mem THEN mem[pid] ELSE NoMem

\* Automaton with the GENERATING -> APPROVAL branch left out
Automaton_NoApproval(prev, cpu, t) ==
    IF cpu > CPU_GENERATING_THRESHOLD
    THEN [state |-> "generating", mem |-> [state |-> "generating", since |-> t]]
    ELSE IF prev.state = "approval"
    THEN IF t - prev.since > APPROVAL_TIMEOUT_MS
         THEN [state |-> "idle", mem |-> [state |-> "idle", since |-> t]]
         ELSE [state |-> "approval", mem |-> prev]
    ELSE [state |-> "idle",
          mem |-> IF prev = NoMem \/ prev.state # "idle"
                  THEN [state |-> "idle", since |-> t]
                  ELSE prev]

\* Automaton with the timeout compared by >= instead of >
Automaton_TimeoutInclusive(prev, cpu, t) ==
    IF cpu > CPU_GENERATING_THRESHOLD
    THEN [state |-> "generating", mem |-> [state |-> "generating", since |-> t]]
    ELSE IF prev.state = "generating"
    THEN [state |-> "approval", mem |-> [state |-> "approval", since |-> t]]
    ELSE IF prev.state = "approval"
    THEN IF t - prev.since >= APPROVAL_TIMEOUT_MS
         THEN [state |-> "idle", mem |-> [state |-> "idle", since |-> t]]
         ELSE [state |-> "approval", mem |-> prev]
    ELSE [state |-> "idle",
          mem |-> IF prev = NoMem \/ prev.state # "idle"
                  THEN [state |-> "idle", since |-> t]
                  ELSE prev]

\* Automaton that stamps the memory again on every tick that stays in APPROVAL
Automaton_Rearm(prev, cpu, t) ==
    IF cpu > CPU_GENERATING_THRESHOLD
    THEN [state |-> "generating", mem |-> [state |-> "generating", since |-> t]]
    ELSE IF prev.state = "generating"
    THEN [state |-> "approval", mem |-> [state |-> "approval", since |-> t]]
    ELSE IF prev.state = "approval"
    THEN IF t - prev.since > APPROVAL_TIMEOUT_MS
         THEN [state |-> "idle", mem |-> [state |-> "idle", since |-> t]]
         ELSE [state |-> "approval", mem |-> [state |-> "approval", since |-> t]]
    ELSE [state |-> "idle",
          mem |-> IF prev = NoMem \/ prev.state # "idle"
                  THEN [state |-> "idle", since |-> t]
                  ELSE prev]

\* the chain with a last branch that writes the memory on every idle tick
Automaton_IdleChurn(prev, cpu, t) ==
    IF cpu > CPU_GENERATING_THRESHOLD
    THEN [state |-> "generating", mem |-> [state |-> "generating", since |-> t]]
    ELSE IF prev.state = "generating"
    THEN [state |-> "approval", mem |-> [state |-> "approval", since |-> t]]
    ELSE IF prev.state = "approval"
    THEN IF t - prev.since > APPROVAL_TIMEOUT_MS
         THEN [state |-> "idle", mem |-> [state |-> "idle", since |-> t]]
         ELSE [state |-> "approval", mem |-> prev]
    ELSE [state |-> "idle", mem |-> [state |-> "idle", since |-> t]]

\* the chain with a first branch that leaves a generating memory entry as it is
Automaton_KeepSince(prev, cpu, t) ==
    IF cpu > CPU_GENERATING_THRESHOLD
    THEN [state |-> "generating",
          mem |-> IF prev.state = "generating" THEN prev
                  ELSE [state |-> "generating", since |-> t]]
    ELSE IF prev.state = "generating"
    THEN [state |-> "approval", mem |-> [state |-> "approval", since |-> t]]
    ELSE IF prev.state = "approval"
    THEN IF t - prev.since > APPROVAL_TIMEOUT_MS
         THEN [state |-> "idle", mem |-> [state |-> "idle", since |-> t]]
         ELSE [state |-> "approval", mem |-> prev]
    ELSE [state |-> "idle",
          mem |-> IF prev = NoMem \/ prev.state # "idle"
                  THEN [state |-> "idle", since |-> t]
                  ELSE prev]

\* Automaton that returns idle once the approval has timed out but leaves the
\* approval entry in the memory
Automaton_ForgetsExpiry(prev, cpu, t) ==
    IF cpu > CPU_GENERATING_THRESHOLD
    THEN [state |-> "generating", mem |-> [state |-> "generating", since |-> t]]
    ELSE IF prev.state = "generating"
    THEN [state |-> "approval", mem |-> [state |-> "approval", since |-> t]]
    ELSE IF prev.state = "approval"
    THEN IF t - prev.since > APPROVAL_TIMEOUT_MS
         THEN [state |-> "idle", mem |-> prev]
         ELSE [state |-> "approval", mem |-> prev]
    ELSE [state |-> "idle",
          mem |-> IF prev = NoMem \/ prev.state # "idle"
                  THEN [state |-> "idle", since |-> t]
                  ELSE prev]

\* one root's pass through the if/else-if chain: the state, and the memory entry
\* afterwards.  prev is NoMem when the map has no entry.
Automaton(prev, cpu, t) ==
    IF cpu > CPU_GENERATING_THRESHOLD
    THEN [state |-> "generating", mem |-> [state |-> "generating", since |-> t]]
    ELSE IF prev.state = "generating"
    THEN [state |-> "approval", mem |-> [state |-> "approval", since |-> t]]
    ELSE IF prev.state = "approval"
    THEN IF t - prev.since > APPROVAL_TIMEOUT_MS
         THEN [state |-> "idle", mem |-> [state |-> "idle", since |-> t]]
         ELSE [state |-> "approval", mem |-> prev]
    ELSE [state |-> "idle",
          mem |-> IF prev = NoMem \/ prev.state # "idle"
                  THEN [state |-> "idle", since |-> t]
                  ELSE prev]

\* cleanupTracking that forgets to delete
cleanupTracking_Keep(mem, termPid) == mem

\* cleanupTracking(termPid): prevStates.delete
cleanupTracking(mem, termPid) == [p \in (DOMAIN mem) \ {termPid} |-> mem[p]]

\* the ClaudeInfo built for a detected process (cwd and lastPrompt are filled by the caller)
BuildInfo(procs, claudeProc) ==
    LET d == countDescendants(procs, claudeProc.pid)
    IN  [pid |-> claudeProc.pid, cwd |-> NoCwd, etime |-> claudeProc.etime,
         skipPermissions |-> includes(claudeProc.command, SkipFlag),
         cpu |-> claudeProc.cpu, rss |-> claudeProc.rss, lastPrompt |-> UNDEF,
         mcpServers |-> d.mcpServers, childProcessCount |-> d.count]

InfoTable ==
    { <<e[1], e[2], e[3],
        IF e[4] = NoProc THEN NoInfo ELSE BuildInfo(Sample(e[1], e[2]), e[4])>> :
         e \in FoundTable }
InfoOf(key, pid) ==
    (CHOOSE e \in InfoTable : e[1] = key[1] /\ e[2] = key[2] /\ e[3] = pid)[4]

\* the body of the loop over terminalPids for one termPid on the sample named key:
\* what is put in `result` and what prevStates is afterwards
DetectOne(mem, termPid, key, t) ==
    LET claudeProc == Found(key, termPid)
    IN  IF claudeProc = NoProc
        THEN [state |-> "none", info |-> NoInfo, mem |-> cleanupTracking(mem, termPid)]
        ELSE LET a == Automaton(MemGet(mem, termPid), claudeProc.cpu, t)
             IN  [state |-> a.state, info |-> InfoOf(key, termPid),
                  mem |-> [p \in (DOMAIN mem) \cup {termPid} |->
                              IF p = termPid THEN a.mem ELSE mem[p]]]

RECURSIVE DetectLoop(_, _, _, _, _, _)
\* the loop over terminalPids from position i; acc is [result, mem]
DetectLoop(terminalPids, i, key, t, result, mem) ==
    IF i > Len(terminalPids) THEN [result |-> result, mem |-> mem]
    ELSE LET pid == terminalPids[i]
             one == DetectOne(mem, pid, key, t)
             r1  == [p \in (DOMAIN result) \cup {pid} |->
                        IF p = pid THEN [state |-> one.state, info |-> one.info]
                        ELSE result[p]]
         IN  DetectLoop(terminalPids, i + 1, key, t, r1, one.mem)

\* detectClaudeStates(terminalPids) with the sample `ps` (PsFailed or PsOk(..)), at
\* time t, on memory mem: [result |-> map pid -> {state, info}, mem |-> prevStates after]
detectClaudeStates(mem, terminalPids, ps, t) ==
    IF Len(terminalPids) = 0 THEN [result |-> <<>>, mem |-> mem]
    ELSE IF ~ps.ok
    THEN [result |-> [p \in Range(terminalPids) |-> [state |-> "none", info |-> NoInfo]],
          mem |-> mem]
    ELSE DetectLoop(terminalPids, 1, ps.key, t, <<>>, mem)


\* ------------------------------------------------------------------------
\* State
\* ------------------------------------------------------------------------
VARIABLES
    now,                \* Date.now(), shared by all windows
    globalState,        \* context.globalState: key (owner id) -> WindowState; a partial function
    alive,              \* alive[w]: the extension is activated in window w and not disposed
    hostTerminals,      \* vscode.window.terminals of window w, a sequence of handles
    hostName,           \* terminal.name of each handle of window w
    records,            \* ActivityTracker.records: idx -> ActivityRecord (partial function)
    creationIndex,      \* ActivityTracker.creationIndex
    terminalIndexMap,   \* ActivityTracker.terminalIndexMap: handle -> idx (partial function)
    persistedTerminals, \* ActivityTracker._persistedTerminals
    pending,            \* idx of every registerTerminal whose terminal.processId has not settled
    prevStates,         \* the detector's prevStates: root pid -> {state, since} (partial function)
    remoteTerminals,    \* WindowManager.remoteTerminals
    issued,             \* history: every id registerTerminal has assigned so far
    lastTick,           \* history: NoTick, or the classifier tick the last step was: its
                        \* window, the ps result, the roots it passed and prevStates before
    lastPoll,           \* history: NoPoll, or the synchronizer tick the last step completed
    dirty,              \* history: dirty[w]: the store was written since w's last completed poll
    inflight,           \* the poll() of window w that is under way, when other processes'
                        \* steps fall between its store operations
    fired,              \* what the last step emitted: "persist" (a write of the window's own
                        \* key), "tracker" / "manager" (a listener of that onDidChange ran),
                        \* "refresh" (the refresh timer's callback ran)
    refresh,            \* per window: the deadlines of the pending refresh timeouts, the
                        \* time of the last change notification and the times of the refreshes
    cwdCall             \* a call of the directory resolver: what the platform answers, and
                        \* what resolveCwd / batchResolveCwds made of it

vars == <<now, globalState, alive, hostTerminals, hostName, records, creationIndex,
          terminalIndexMap, persistedTerminals, pending, prevStates, remoteTerminals, issued,
          lastTick, lastPoll, dirty, inflight, fired, refresh, cwdCall>>

EmptyFn == <<>>

\* a partial function with key k set to v / removed
Put(f, k, v) == [x \in (DOMAIN f) \cup {k} |-> IF x = k THEN v ELSE f[x]]
\* a removal that takes every key with it
Del_All(f, k) == EmptyFn
Del(f, k) == [x \in (DOMAIN f) \ {k} |-> f[x]]

\* the keys of records in Map iteration order (insertion order = increasing idx)
RECURSIVE SortedKeys(_)
SortedKeys(S) ==
    IF S = {} THEN <<>>
    ELSE LET m == CHOOSE x \in S : \A y \in S : x <= y
         IN  <<m>> \o SortedKeys(S \ {m})

\* getLocalRecords(): [...this.records.values()]
getLocalRecords(recs) ==
    LET ks == SortedKeys(DOMAIN recs)
    IN  [i \in 1..Len(ks) |-> recs[ks[i]]]

\* the object literal with the record's claudeInfo left in
Summary_WithInfo(r) ==
    [id |-> r.id, name |-> r.name, displayName |-> r.displayName,
     displayNameIsCustom |-> r.displayNameIsCustom, processId |-> r.processId,
     lastActivity |-> r.lastActivity, createdAt |-> r.createdAt,
     windowId |-> r.windowId, windowName |-> r.windowName, claudeInfo |-> r.claudeInfo]

\* the object literal persistToGlobalState maps each record to
Summary(r) ==
    [id |-> r.id, name |-> r.name, displayName |-> r.displayName,
     displayNameIsCustom |-> r.displayNameIsCustom, processId |-> r.processId,
     lastActivity |-> r.lastActivity, createdAt |-> r.createdAt,
     windowId |-> r.windowId, windowName |-> r.windowName]

\* the WindowState persistToGlobalState writes
WindowStateOf(w, recs, t) ==
    LET local == getLocalRecords(recs)
    IN  [windowId |-> w, windowName |-> WindowName(w), lastUpdated |-> t,
         terminals |-> [i \in 1..Len(local) |-> Summary(local[i])]]

\* persistToGlobalState() that writes every window's state under one fixed key
persistToGlobalState_Shared(gs, w, recs, t) == Put(gs, "w1", WindowStateOf(w, recs, t))

\* globalState after persistToGlobalState() of window w
persistToGlobalState(gs, w, recs, t) == Put(gs, w, WindowStateOf(w, recs, t))

\* findIndex that returns the last matching position instead of the first
findIndex_Last(persisted, name) ==
    IF \E i \in 1..Len(persisted) : persisted[i].name = name
    THEN CHOOSE i \in 1..Len(persisted) :
            /\ persisted[i].name = name
            /\ \A j \in (i + 1)..Len(persisted) : persisted[j].name # name
    ELSE 0

\* findPersistedMatch: the index findIndex returns (0 for -1)
findIndex(persisted, name) ==
    IF \E i \in 1..Len(persisted) : persisted[i].name = name
    THEN CHOOSE i \in 1..Len(persisted) :
            /\ persisted[i].name = name
            /\ \A j \in 1..(i - 1) : persisted[j].name # name
    ELSE 0

\* splice(idx, 1): the list without position i
splice(persisted, i) ==
    SubSeq(persisted, 1, i - 1) \o SubSeq(persisted, i + 1, Len(persisted))

\* The tracker's own fields as one value, so that registerTerminal can be applied
\* repeatedly by the constructor.
TrackerOf(w) ==
    [records |-> records[w], creationIndex |-> creationIndex[w],
     terminalIndexMap |-> terminalIndexMap[w],
     persistedTerminals |-> persistedTerminals[w], pending |-> pending[w]]

\* registerTerminal(terminal) up to the point where it returns; the .then callback
\* is the action ResolvePid
registerTerminal(T, w, terminal, name, t) ==
    LET idx == T.creationIndex
        m   == findIndex(T.persistedTerminals, name)
        rec == [id |-> RecordId(w, idx),
                name |-> name,
                displayName |-> IF m = 0 THEN UNDEF ELSE T.persistedTerminals[m].displayName,
                displayNameIsCustom |->
                    IF m = 0 THEN UNDEF ELSE T.persistedTerminals[m].displayNameIsCustom,
                processId |-> NoPid,
                lastActivity |-> IF m = 0 THEN t ELSE T.persistedTerminals[m].lastActivity,
                createdAt |-> IF m = 0 THEN t ELSE T.persistedTerminals[m].createdAt,
                windowId |-> w,
                windowName |-> WindowName(w),
                isLocal |-> TRUE,
                claudeState |-> UNDEF,
                claudeInfo |-> NoInfo]
    IN  [records |-> Put(T.records, idx, rec),
         creationIndex |-> idx + 1,
         terminalIndexMap |-> Put(T.terminalIndexMap, terminal, idx),
         persistedTerminals |-> IF m = 0 THEN T.persistedTerminals
                                ELSE splice(T.persistedTerminals, m),
         pending |-> T.pending \cup {idx}]

\* unregisterTerminal that forgets the terminal but keeps its record
unregisterTerminal_KeepRecord(T, terminal) ==
    IF terminal \in DOMAIN T.terminalIndexMap
    THEN [T EXCEPT !.terminalIndexMap = Del(T.terminalIndexMap, terminal)]
    ELSE T

\* unregisterTerminal(terminal)
unregisterTerminal(T, terminal) ==
    IF terminal \in DOMAIN T.terminalIndexMap
    THEN [T EXCEPT !.records = Del(T.records, T.terminalIndexMap[terminal]),
                   !.terminalIndexMap = Del(T.terminalIndexMap, terminal)]
    ELSE T

\* the constructor's loop over vscode.window.terminals, from position i
RECURSIVE registerExisting(_, _, _, _, _, _)
registerExisting(T, w, terms, names, i, t) ==
    IF i > Len(terms) THEN T
    ELSE registerExisting(registerTerminal(T, w, terms[i], names[terms[i]], t),
                          w, terms, names, i + 1, t)

\* loadFromGlobalState(): the persisted terminals of the window's own key
loadFromGlobalState(gs, w) == IF w \in DOMAIN gs THEN gs[w].terminals ELSE <<>>

\* the assignment of a tracker value to the tracker's variables of window w
SetTracker(w, T) ==
    /\ records' = [records EXCEPT ![w] = T.records]
    /\ creationIndex' = [creationIndex EXCEPT ![w] = T.creationIndex]
    /\ terminalIndexMap' = [terminalIndexMap EXCEPT ![w] = T.terminalIndexMap]
    /\ persistedTerminals' = [persistedTerminals EXCEPT ![w] = T.persistedTerminals]
    /\ pending' = [pending EXCEPT ![w] = T.pending]

trackerVars == <<records, creationIndex, terminalIndexMap, persistedTerminals, pending>>
hostVars == <<hostTerminals, hostName>>

\* ------------------------------------------------------------------------
\* WindowManager.poll
\* ------------------------------------------------------------------------
\* globalState.keys() in enumeration order
KeyOrder == <<"w1", "w2", "w3">>

\* the entities of a foreign snapshot pushed as they are stored
RemoteOf_Untagged(state) == state.terminals

\* the entities poll() pushes for one foreign snapshot: { ...t, isLocal: false }
RemoteOf(state) ==
    [k \in 1..Len(state.terminals) |->
        [id |-> state.terminals[k].id,
         name |-> state.terminals[k].name,
         displayName |-> state.terminals[k].displayName,
         displayNameIsCustom |-> state.terminals[k].displayNameIsCustom,
         processId |-> state.terminals[k].processId,
         lastActivity |-> state.terminals[k].lastActivity,
         createdAt |-> state.terminals[k].createdAt,
         windowId |-> state.terminals[k].windowId,
         windowName |-> state.terminals[k].windowName,
         isLocal |-> FALSE]]

\* "for (const t of state.terminals)" raises a TypeError on a stored value that has
\* no terminals property
Iterable(state) == "terminals" \in DOMAIN state

RECURSIVE PollLoop(_, _, _, _, _, _)
\* the loop over keys from position i: [gs, newRemote]
PollLoop(w, keys, i, t, gs, newRemote) ==
    IF i > Len(keys) THEN [gs |-> gs, newRemote |-> newRemote, threw |-> FALSE]
    ELSE LET key == keys[i]
         IN  IF key \notin DOMAIN gs
             THEN PollLoop(w, keys, i + 1, t, gs, newRemote)
             ELSE LET state == gs[key]
                  IN  IF state.windowId = w
                      THEN PollLoop(w, keys, i + 1, t, gs, newRemote)
                      ELSE IF t - state.lastUpdated > STALE_WINDOW_THRESHOLD_MS
                      THEN PollLoop(w, keys, i + 1, t, Del(gs, key), newRemote)
                      ELSE IF ~Iterable(state)
                      THEN [gs |-> gs, newRemote |-> newRemote, threw |-> TRUE]
                      ELSE PollLoop(w, keys, i + 1, t, gs,
                             newRemote \o RemoteOf(state))

\* the keys poll() starts from
PollKeys(gs) == SelectSeq(KeyOrder, LAMBDA k : k \in DOMAIN gs)

\* poll()'s "changed" that holds on every tick
PollChanged_Always(newRemote, old) == TRUE

\* poll()'s "changed": lengths differ, or some position differs in id or lastActivity
PollChanged(newRemote, old) ==
    \/ Len(newRemote) # Len(old)
    \/ \E i \in 1..Len(newRemote) :
          \/ newRemote[i].id # old[i].id
          \/ newRemote[i].lastActivity # old[i].lastActivity

\* poll() without the test that skips the window's own snapshot
poll_KeepsOwn(w, gs, old, t) ==
    LET r == PollLoop(UNDEF, PollKeys(gs), 1, t, gs, <<>>)
    IN  [gs |-> r.gs,
         newRemote |-> IF r.threw THEN old ELSE r.newRemote,
         changed |-> ~r.threw /\ PollChanged(r.newRemote, old),
         threw |-> r.threw]

\* poll() that skips a stale snapshot without deleting its key
poll_NoPurge(w, gs, old, t) ==
    LET r == PollLoop(w, PollKeys(gs), 1, t, gs, <<>>)
    IN  [gs |-> gs, newRemote |-> IF r.threw THEN old ELSE r.newRemote,
         changed |-> ~r.threw /\ PollChanged(r.newRemote, old), threw |-> r.threw]

\* poll() of window w at time t: [gs, newRemote, changed]
poll(w, gs, old, t) ==
    LET r == PollLoop(w, PollKeys(gs), 1, t, gs, <<>>)
    IN  [gs |-> r.gs, newRemote |-> IF r.threw THEN old ELSE r.newRemote,
         changed |-> ~r.threw /\ PollChanged(r.newRemote, old), threw |-> r.threw]


\* ------------------------------------------------------------------------
\* Initial state: no window is activated, the store is empty
\* ------------------------------------------------------------------------
NoTick == [w |-> UNDEF, ps |-> PsFailed, roots |-> <<>>, before |-> EmptyFn, recs |-> EmptyFn]

\* lastPoll when the last step completed no poll(); otherwise the window, the store and
\* remoteTerminals the poll started from, whether the store had been left alone since
\* the window's previous poll, and the keys the poll deleted
NoPoll ==
    [w |-> UNDEF, before |-> EmptyFn, old |-> <<>>, quiet |-> FALSE, deleted |-> {},
     threw |-> FALSE]

\* ------------------------------------------------------------------------
\* resolveCwd / batchResolveCwds
\* ------------------------------------------------------------------------
\* a function call either returns a value or raises
Return(v) == [threw |-> FALSE, value |-> v]
Raise == [threw |-> TRUE, value |-> UNDEF]

Platforms == {"darwin", "linux", "win32"}

\* the text after the tag of an lsof output line: a path (absolute or not) as its
\* segments, or nothing at all
LsofText ==
    [abs  |-> [absolute |-> TRUE, segments |-> <<"home", "proj">>],
     rel  |-> [absolute |-> FALSE, segments |-> <<"proj">>],
     none |-> [absolute |-> FALSE, segments |-> <<>>]]

\* what execSync("lsof -p <pids> -a -d cwd -Fn") can give for the pids: an exception
\* (non-zero exit, timeout) or the output lines, with a block p<pid>, fcwd, n<name>
\* for none, some or all of the processes, and possibly a name line ahead of the
\* first process line
LsofRuns(pids) ==
    LET Block(pid, dir) ==
            <<[tag |-> "p", text |-> pid], [tag |-> "f", text |-> LsofText.none],
              [tag |-> "n", text |-> dir]>>
    IN  {[threw |-> TRUE, lines |-> <<>>]} \cup
        {[threw |-> FALSE, lines |-> head \o a \o b] :
            head \in {<<>>, <<[tag |-> "n", text |-> LsofText.abs]>>},
            a \in {<<>>} \cup {Block(pids[1], d) : d \in {LsofText.abs, LsofText.rel, LsofText.none}},
            b \in {<<>>} \cup {Block(pids[2], d) : d \in {LsofText.abs}}}

\* /proc/<pid>/cwd: whether fs.existsSync finds it, and whether fs.readlinkSync then
\* raises (the process has exited in between) or returns the link's target
ProcEntries ==
    {[exists |-> FALSE, threw |-> FALSE, target |-> NoCwd],
     [exists |-> TRUE, threw |-> TRUE, target |-> NoCwd],
     [exists |-> TRUE, threw |-> FALSE, target |-> <<"home", "proj">>]}

\* the name lines resolveCwdMacOS and batchResolveCwds accept
IsNameLine(line) ==
    /\ line.tag = "n"
    /\ line.text # LsofText.none
    /\ line.text.absolute

resolveCwdMacOS(run) ==
    IF run.threw THEN Raise
    ELSE LET hits == {i \in 1..Len(run.lines) : IsNameLine(run.lines[i])}
         IN  IF hits = {} THEN Return(NoCwd)
             ELSE Return(run.lines[CHOOSE i \in hits : \A j \in hits : i <= j].text.segments)

resolveCwdLinux(entry) ==
    IF ~entry.exists THEN Return(NoCwd)
    ELSE IF entry.threw THEN Raise
    ELSE Return(entry.target)

\* resolveCwd without its try / catch
resolveCwd_NoCatch(platform, run, entry) ==
    IF platform = "darwin" THEN resolveCwdMacOS(run)
    ELSE IF platform = "linux" THEN resolveCwdLinux(entry)
    ELSE Return(NoCwd)

\* resolveCwd(pid) on the given platform, given what lsof and /proc answer for pid
resolveCwd(platform, run, entry) ==
    LET r == IF platform = "darwin" THEN resolveCwdMacOS(run)
             ELSE IF platform = "linux" THEN resolveCwdLinux(entry)
             ELSE Return(NoCwd)
    IN  IF r.threw THEN Return(NoCwd) ELSE r

\* the loop of batchResolveCwds over the lines of the lsof output, from line i;
\* currentPid is NoPid as long as no process line has been read
RECURSIVE ParseLsof(_, _, _, _)
ParseLsof(lines, i, currentPid, result) ==
    IF i > Len(lines) THEN result
    ELSE IF lines[i].tag = "p"
         THEN ParseLsof(lines, i + 1, lines[i].text, result)
         ELSE IF IsNameLine(lines[i]) /\ currentPid # NoPid
         THEN ParseLsof(lines, i + 1, currentPid,
                        Put(result, currentPid, lines[i].text.segments))
         ELSE ParseLsof(lines, i + 1, currentPid, result)

\* the loop of batchResolveCwds over the pids, from position i: an exception of
\* readlinkSync is caught inside the loop
RECURSIVE ReadLinks(_, _, _, _)
ReadLinks(pids, i, entries, result) ==
    IF i > Len(pids) THEN result
    ELSE LET e == entries[pids[i]]
         IN  ReadLinks(pids, i + 1, entries,
                       IF e.exists /\ ~e.threw THEN Put(result, pids[i], e.target)
                       ELSE result)

\* batchResolveCwds(pids): the Map it returns, as a function on the pids it holds
batchResolveCwds(platform, pids, run, entries) ==
    IF Len(pids) = 0 THEN Return(EmptyFn)
    ELSE IF platform = "darwin"
    THEN IF run.threw THEN Return(EmptyFn)
         ELSE Return(ParseLsof(run.lines, 1, NoPid, EmptyFn))
    ELSE IF platform = "linux" THEN Return(ReadLinks(pids, 1, entries, EmptyFn))
    ELSE Return(EmptyFn)

\* cwdCall when the resolver has nothing to do
NoCall ==
    [phase |-> "none", platform |-> UNDEF, pids |-> <<>>, run |-> UNDEF,
     entries |-> EmptyFn, result |-> UNDEF]

\* the refresh timer of a window whose scheduleRefresh has not run
NoRefresh == [timers |-> {}, notified |-> {}, refreshed |-> {}]

\* scheduleRefresh() that sets a new timeout without clearing the pending one
scheduleRefresh_NoClear(r, t) ==
    [r EXCEPT !.timers = @ \cup {t + TREE_REFRESH_DEBOUNCE_MS}, !.notified = {t}]

\* scheduleRefresh() at time t: clearTimeout of the pending timeout, then setTimeout
scheduleRefresh(r, t) ==
    [r EXCEPT !.timers = {t + TREE_REFRESH_DEBOUNCE_MS}, !.notified = {t}]

\* inflight[w] when no poll() of window w is under way
NoInflight ==
    [keys |-> <<>>, i |-> 0, t |-> 0, newRemote |-> <<>>, del |-> FALSE, deleted |-> {},
     before |-> EmptyFn, quiet |-> FALSE]

\* every window whose store has just been written has something new to read
NoteWrites == dirty' = [x \in Owners |-> dirty[x] \/ globalState' # globalState]

NoTracker ==
    [records |-> EmptyFn, creationIndex |-> 0, terminalIndexMap |-> EmptyFn,
     persistedTerminals |-> <<>>, pending |-> {}]

InitProgram ==
    /\ now = 0
    /\ globalState = EmptyFn
    /\ alive = [w \in Owners |-> FALSE]
    /\ hostTerminals = [w \in Owners |-> <<>>]
    /\ hostName = [w \in Owners |-> [t \in Terminals |-> "zsh"]]
    /\ records = [w \in Owners |-> EmptyFn]
    /\ creationIndex = [w \in Owners |-> 0]
    /\ terminalIndexMap = [w \in Owners |-> EmptyFn]
    /\ persistedTerminals = [w \in Owners |-> <<>>]
    /\ pending = [w \in Owners |-> {}]
    /\ prevStates = [w \in Owners |-> EmptyFn]
    /\ remoteTerminals = [w \in Owners |-> <<>>]
    /\ issued = {}
    /\ lastTick = NoTick
    /\ lastPoll = NoPoll
    /\ dirty = [w \in Owners |-> TRUE]
    /\ inflight = [w \in Owners |-> NoInflight]
    /\ fired = {}
    /\ refresh = [w \in Owners |-> NoRefresh]

Init ==
    /\ InitProgram
    /\ cwdCall = NoCall

\* time passes
AdvanceClock(T) ==
    /\ \E t \in T : t > now /\ now' = t
    /\ fired' = {} /\ UNCHANGED refresh
    /\ lastTick' = NoTick /\ UNCHANGED cwdCall
    /\ UNCHANGED <<globalState, alive, hostVars, trackerVars, prevStates, remoteTerminals, issued>>
    /\ lastPoll' = NoPoll
    /\ NoteWrites
    /\ UNCHANGED inflight

\* tracker.onDidChange / windowManager.onDidChange of window w calls its listener
\* scheduleRefresh
Notify(w) == refresh' = [refresh EXCEPT ![w] = scheduleRefresh(@, now)]

\* the refresh timeout of window w expires (at its deadline or later) and its callback
\* runs treeProvider.refresh()
RefreshFire(w) ==
    /\ \E d \in refresh[w].timers :
          /\ now >= d
          /\ refresh' = [refresh EXCEPT ![w].timers = @ \ {d}, ![w].refreshed = @ \cup {now}]
    /\ fired' = {"refresh"}
    /\ lastTick' = NoTick /\ UNCHANGED cwdCall
    /\ lastPoll' = NoPoll
    /\ UNCHANGED <<now, globalState, alive, hostVars, trackerVars, prevStates,
                   remoteTerminals, issued, dirty, inflight>>

\* fireChange() of window w on the records recs: persistToGlobalState, then
\* _onDidChange.fire() (which reaches no listener once the emitter is disposed)
FireChange(w, recs) ==
    /\ globalState' = persistToGlobalState(globalState, w, recs, now)
    /\ fired' = (IF alive[w] THEN {"persist", "tracker"} ELSE {"persist"})
    /\ IF alive[w] THEN Notify(w) ELSE UNCHANGED refresh

\* ------------------------------------------------------------------------
\* extension.ts activate(): new ActivityTracker, then new WindowManager
\* ------------------------------------------------------------------------
Activate(w) ==
    /\ ~alive[w]
    /\ LET loaded == [NoTracker EXCEPT !.persistedTerminals = loadFromGlobalState(globalState, w)]
           T == registerExisting(loaded, w, hostTerminals[w], hostName[w], 1, now)
           p == poll(w, globalState, <<>>, now)
       IN  /\ SetTracker(w, T)
           /\ globalState' = p.gs
           /\ remoteTerminals' = [remoteTerminals EXCEPT ![w] = p.newRemote]
           /\ fired' = IF p.changed THEN {"manager"} ELSE {}
           /\ refresh' = [refresh EXCEPT ![w] = NoRefresh]
           /\ issued' = issued \cup {T.records[i].id : i \in DOMAIN T.records}
    /\ alive' = [alive EXCEPT ![w] = TRUE]
    /\ prevStates' = [prevStates EXCEPT ![w] = EmptyFn]
    /\ lastTick' = NoTick /\ UNCHANGED cwdCall
    /\ lastPoll' = [w |-> w, before |-> globalState, old |-> <<>>, quiet |-> FALSE,
                    deleted |-> (DOMAIN globalState) \ (DOMAIN globalState'),
                    threw |-> poll(w, globalState, <<>>, now).threw]
    /\ dirty' = [x \in Owners |->
                    IF x = w THEN FALSE ELSE dirty[x] \/ globalState' # globalState]
    /\ UNCHANGED <<now, hostVars, inflight>>

\* ActivityTracker.dispose() and WindowManager.dispose()
Dispose(w) ==
    /\ alive[w]
    /\ inflight[w] = NoInflight
    /\ alive' = [alive EXCEPT ![w] = FALSE]
    /\ prevStates' = [prevStates EXCEPT ![w] = EmptyFn]
    /\ globalState' = persistToGlobalState(globalState, w, records[w], now)
    /\ fired' = {"persist"}
    /\ UNCHANGED refresh
    /\ lastTick' = NoTick /\ UNCHANGED cwdCall
    /\ UNCHANGED <<now, hostVars, trackerVars, remoteTerminals, issued>>
    /\ lastPoll' = NoPoll
    /\ dirty' = [x \in Owners |-> TRUE]
    /\ UNCHANGED inflight

\* ------------------------------------------------------------------------
\* Host events
\* ------------------------------------------------------------------------
\* the user opens a terminal; onDidOpenTerminal when the extension is active
OpenTerminal(w, t, name) ==
    /\ t \notin Range(hostTerminals[w])
    /\ hostTerminals' = [hostTerminals EXCEPT ![w] = Append(@, t)]
    /\ hostName' = [hostName EXCEPT ![w][t] = name]
    /\ IF alive[w]
       THEN /\ creationIndex[w] < MaxIdx
            /\ LET T == registerTerminal(TrackerOf(w), w, t, name, now)
               IN  /\ SetTracker(w, T)
                   /\ issued' = issued \cup {RecordId(w, creationIndex[w])}
                   /\ FireChange(w, T.records)
       ELSE /\ UNCHANGED <<trackerVars, globalState, issued>>
            /\ fired' = {} /\ UNCHANGED refresh
    /\ lastTick' = NoTick /\ UNCHANGED cwdCall
    /\ UNCHANGED <<now, alive, prevStates, remoteTerminals>>
    /\ lastPoll' = NoPoll
    /\ NoteWrites
    /\ UNCHANGED inflight

\* the user closes a terminal; onDidCloseTerminal when the extension is active
CloseTerminal(w, t) ==
    /\ t \in Range(hostTerminals[w])
    /\ hostTerminals' = [hostTerminals EXCEPT ![w] = SelectSeq(@, LAMBDA x : x # t)]
    /\ hostName' = [hostName EXCEPT ![w][t] = "zsh"]
    /\ IF alive[w]
       THEN LET T == unregisterTerminal(TrackerOf(w), t)
            IN  /\ SetTracker(w, T)
                /\ FireChange(w, T.records)
       ELSE /\ UNCHANGED <<trackerVars, globalState>>
            /\ fired' = {} /\ UNCHANGED refresh
    /\ lastTick' = NoTick /\ UNCHANGED cwdCall
    /\ UNCHANGED <<now, alive, prevStates, remoteTerminals, issued>>
    /\ lastPoll' = NoPoll
    /\ NoteWrites
    /\ UNCHANGED inflight

\* the host renames an open terminal; VS Code has no event for it
RenameTerminal(w, t, name) ==
    /\ t \in Range(hostTerminals[w])
    /\ hostName[w][t] # name
    /\ hostName' = [hostName EXCEPT ![w][t] = name]
    /\ fired' = {} /\ UNCHANGED refresh
    /\ lastTick' = NoTick /\ UNCHANGED cwdCall
    /\ UNCHANGED <<now, globalState, alive, hostTerminals, trackerVars, prevStates,
                   remoteTerminals, issued>>
    /\ lastPoll' = NoPoll
    /\ NoteWrites
    /\ UNCHANGED inflight

\* touch that stamps a clock reading taken at start-up (0) instead of Date.now()
Touch_StaleClock(w, t) ==
    /\ alive[w]
    /\ IF t \in DOMAIN terminalIndexMap[w] /\ terminalIndexMap[w][t] \in DOMAIN records[w]
       THEN LET idx == terminalIndexMap[w][t]
                recs == [records[w] EXCEPT ![idx].lastActivity = 0,
                                           ![idx].name = hostName[w][t]]
            IN  /\ records' = [records EXCEPT ![w] = recs]
                /\ FireChange(w, recs)
       ELSE /\ UNCHANGED <<records, globalState>>
            /\ fired' = {} /\ UNCHANGED refresh
    /\ lastTick' = NoTick /\ UNCHANGED cwdCall
    /\ UNCHANGED <<now, alive, hostVars, creationIndex, terminalIndexMap, persistedTerminals,
                   pending, prevStates, remoteTerminals, issued>>
    /\ lastPoll' = NoPoll
    /\ NoteWrites
    /\ UNCHANGED inflight

\* touch(terminal) that calls fireChange() for a terminal it has no index for as well
Touch_FiresAnyway(w, t) ==
    /\ alive[w]
    /\ IF t \in DOMAIN terminalIndexMap[w] /\ terminalIndexMap[w][t] \in DOMAIN records[w]
       THEN LET idx == terminalIndexMap[w][t]
                recs == [records[w] EXCEPT ![idx].lastActivity = now,
                                           ![idx].name = hostName[w][t]]
            IN  /\ records' = [records EXCEPT ![w] = recs]
                /\ FireChange(w, recs)
       ELSE /\ UNCHANGED records
            /\ FireChange(w, records[w])
    /\ lastTick' = NoTick /\ UNCHANGED cwdCall
    /\ UNCHANGED <<now, alive, hostVars, creationIndex, terminalIndexMap, persistedTerminals,
                   pending, prevStates, remoteTerminals, issued>>
    /\ lastPoll' = NoPoll
    /\ NoteWrites
    /\ UNCHANGED inflight

\* touch(terminal): from onDidChangeActiveTerminal and the shell execution events
Touch(w, t) ==
    /\ alive[w]
    /\ IF t \in DOMAIN terminalIndexMap[w] /\ terminalIndexMap[w][t] \in DOMAIN records[w]
       THEN LET idx == terminalIndexMap[w][t]
                recs == [records[w] EXCEPT ![idx].lastActivity = now,
                                           ![idx].name = hostName[w][t]]
            IN  /\ records' = [records EXCEPT ![w] = recs]
                /\ FireChange(w, recs)
       ELSE /\ UNCHANGED <<records, globalState>>
            /\ fired' = {} /\ UNCHANGED refresh
    /\ lastTick' = NoTick /\ UNCHANGED cwdCall
    /\ UNCHANGED <<now, alive, hostVars, creationIndex, terminalIndexMap, persistedTerminals,
                   pending, prevStates, remoteTerminals, issued>>
    /\ lastPoll' = NoPoll
    /\ NoteWrites
    /\ UNCHANGED inflight

\* setDisplayName that leaves the record marked custom when the name is cleared
SetDisplayName_StaysCustom(w, recordId, displayName) ==
    /\ alive[w]
    /\ LET hits == {i \in DOMAIN records[w] : records[w][i].id = recordId}
       IN  IF hits # {}
           THEN LET idx == CHOOSE i \in hits : \A j \in hits : i <= j
                    given == displayName # "" /\ displayName # UNDEF
                    recs == [records[w] EXCEPT
                               ![idx].displayName = IF given THEN displayName ELSE UNDEF,
                               ![idx].displayNameIsCustom = "true"]
                IN  /\ records' = [records EXCEPT ![w] = recs]
                    /\ FireChange(w, recs)
           ELSE /\ UNCHANGED <<records, globalState>>
                /\ fired' = {} /\ UNCHANGED refresh
    /\ lastTick' = NoTick /\ UNCHANGED cwdCall
    /\ UNCHANGED <<now, alive, hostVars, creationIndex, terminalIndexMap, persistedTerminals,
                   pending, prevStates, remoteTerminals, issued>>
    /\ lastPoll' = NoPoll
    /\ NoteWrites
    /\ UNCHANGED inflight

\* setDisplayName(recordId, displayName)
SetDisplayName(w, recordId, displayName) ==
    /\ alive[w]
    /\ LET hits == {i \in DOMAIN records[w] : records[w][i].id = recordId}
       IN  IF hits # {}
           THEN LET idx == CHOOSE i \in hits : \A j \in hits : i <= j
                    given == displayName # "" /\ displayName # UNDEF
                    recs == [records[w] EXCEPT
                               ![idx].displayName = IF given THEN displayName ELSE UNDEF,
                               ![idx].displayNameIsCustom = IF given THEN "true" ELSE "false"]
                IN  /\ records' = [records EXCEPT ![w] = recs]
                    /\ FireChange(w, recs)
           ELSE /\ UNCHANGED <<records, globalState>>
                /\ fired' = {} /\ UNCHANGED refresh
    /\ lastTick' = NoTick /\ UNCHANGED cwdCall
    /\ UNCHANGED <<now, alive, hostVars, creationIndex, terminalIndexMap, persistedTerminals,
                   pending, prevStates, remoteTerminals, issued>>
    /\ lastPoll' = NoPoll
    /\ NoteWrites
    /\ UNCHANGED inflight

\* the process ids some record of some window already holds
UsedPids ==
    (UNION {{records[w][i].processId : i \in DOMAIN records[w]} : w \in Owners}) \ {NoPid}

\* the .then callback without the test of displayNameIsCustom
ResolvePid_Overwrite(w, idx, pid, cwd) ==
    /\ idx \in pending[w]
    /\ pid \notin UsedPids
    /\ pending' = [pending EXCEPT ![w] = @ \ {idx}]
    /\ IF idx \notin DOMAIN records[w]
       THEN /\ UNCHANGED <<records, globalState>>
            /\ fired' = {} /\ UNCHANGED refresh
       ELSE LET named == pid # NoPid /\ cwd # NoCwd
                recs == [records[w] EXCEPT
                           ![idx].processId = pid,
                           ![idx].displayName = IF named THEN Basename(cwd) ELSE @]
            IN  /\ records' = [records EXCEPT ![w] = recs]
                /\ IF named
                   THEN FireChange(w, recs)
                   ELSE /\ UNCHANGED globalState
                        /\ fired' = {} /\ UNCHANGED refresh
    /\ lastTick' = NoTick /\ UNCHANGED cwdCall
    /\ UNCHANGED <<now, alive, hostVars, creationIndex, terminalIndexMap, persistedTerminals,
                   prevStates, remoteTerminals, issued>>
    /\ lastPoll' = NoPoll
    /\ NoteWrites
    /\ UNCHANGED inflight

\* the processId callback that derives the name without looking at the pid
ResolvePid_AnyPid(w, idx, pid, cwd) ==
    /\ idx \in pending[w]
    /\ pid \notin UsedPids
    /\ pending' = [pending EXCEPT ![w] = @ \ {idx}]
    /\ IF idx \notin DOMAIN records[w]
       THEN /\ UNCHANGED <<records, globalState>>
            /\ fired' = {} /\ UNCHANGED refresh
       ELSE LET record == records[w][idx]
                named == record.displayNameIsCustom # "true" /\ cwd # NoCwd
                recs == [records[w] EXCEPT
                           ![idx].processId = pid,
                           ![idx].displayName = IF named THEN Basename(cwd) ELSE @]
            IN  /\ records' = [records EXCEPT ![w] = recs]
                /\ IF named
                   THEN FireChange(w, recs)
                   ELSE /\ UNCHANGED globalState
                        /\ fired' = {} /\ UNCHANGED refresh
    /\ lastTick' = NoTick /\ UNCHANGED cwdCall
    /\ UNCHANGED <<now, alive, hostVars, creationIndex, terminalIndexMap, persistedTerminals,
                   prevStates, remoteTerminals, issued>>
    /\ lastPoll' = NoPoll
    /\ NoteWrites
    /\ UNCHANGED inflight


\* the .then callback that, finding no record, calls fireChange() before it returns
ResolvePid_FiresAnyway(w, idx, pid, cwd) ==
    /\ idx \in pending[w]
    /\ pid \notin UsedPids
    /\ pending' = [pending EXCEPT ![w] = @ \ {idx}]
    /\ IF idx \notin DOMAIN records[w]
       THEN /\ UNCHANGED records
            /\ FireChange(w, records[w])
       ELSE LET record == records[w][idx]
                named == record.displayNameIsCustom # "true" /\ pid # NoPid /\ cwd # NoCwd
                recs == [records[w] EXCEPT
                           ![idx].processId = pid,
                           ![idx].displayName = IF named THEN Basename(cwd) ELSE @]
            IN  /\ records' = [records EXCEPT ![w] = recs]
                /\ IF named
                   THEN FireChange(w, recs)
                   ELSE /\ UNCHANGED globalState
                        /\ fired' = {} /\ UNCHANGED refresh
    /\ lastTick' = NoTick /\ UNCHANGED cwdCall
    /\ UNCHANGED <<now, alive, hostVars, creationIndex, terminalIndexMap, persistedTerminals,
                   prevStates, remoteTerminals, issued>>
    /\ lastPoll' = NoPoll
    /\ NoteWrites
    /\ UNCHANGED inflight

\* the .then callback of registerTerminal: terminal.processId settles with pid, and
\* resolveCwd(pid) gives cwd (NoCwd when it fails)
ResolvePid(w, idx, pid, cwd) ==
    /\ idx \in pending[w]
    /\ pid \notin UsedPids
    /\ pending' = [pending EXCEPT ![w] = @ \ {idx}]
    /\ IF idx \notin DOMAIN records[w]
       THEN /\ UNCHANGED <<records, globalState>>
            /\ fired' = {} /\ UNCHANGED refresh
       ELSE LET record == records[w][idx]
                named == record.displayNameIsCustom # "true" /\ pid # NoPid /\ cwd # NoCwd
                recs == [records[w] EXCEPT
                           ![idx].processId = pid,
                           ![idx].displayName = IF named THEN Basename(cwd) ELSE @]
            IN  /\ records' = [records EXCEPT ![w] = recs]
                /\ IF named
                   THEN FireChange(w, recs)
                   ELSE /\ UNCHANGED globalState
                        /\ fired' = {} /\ UNCHANGED refresh
    /\ lastTick' = NoTick /\ UNCHANGED cwdCall
    /\ UNCHANGED <<now, alive, hostVars, creationIndex, terminalIndexMap, persistedTerminals,
                   prevStates, remoteTerminals, issued>>
    /\ lastPoll' = NoPoll
    /\ NoteWrites
    /\ UNCHANGED inflight

\* checkNameChanges() that stamps lastActivity on the records it renames
CheckNameChanges_Stamps(w) ==
    /\ alive[w]
    /\ LET map == terminalIndexMap[w]
           stale == {t \in DOMAIN map : map[t] \in DOMAIN records[w]
                                        /\ records[w][map[t]].name # hostName[w][t]}
           recs == [i \in DOMAIN records[w] |->
                      IF \E t \in stale : map[t] = i
                      THEN [records[w][i] EXCEPT
                              !.name = hostName[w][CHOOSE t \in stale : map[t] = i],
                              !.lastActivity = now]
                      ELSE records[w][i]]
       IN  /\ records' = [records EXCEPT ![w] = recs]
           /\ IF stale # {}
              THEN FireChange(w, recs)
              ELSE /\ UNCHANGED globalState
                   /\ fired' = {} /\ UNCHANGED refresh
    /\ lastTick' = NoTick /\ UNCHANGED cwdCall
    /\ UNCHANGED <<now, alive, hostVars, creationIndex, terminalIndexMap, persistedTerminals,
                   pending, prevStates, remoteTerminals, issued>>
    /\ lastPoll' = NoPoll
    /\ NoteWrites
    /\ UNCHANGED inflight

\* checkNameChanges(), every NAME_CHECK_INTERVAL_MS
CheckNameChanges(w) ==
    /\ alive[w]
    /\ LET map == terminalIndexMap[w]
           stale == {t \in DOMAIN map : map[t] \in DOMAIN records[w]
                                        /\ records[w][map[t]].name # hostName[w][t]}
           recs == [i \in DOMAIN records[w] |->
                      IF \E t \in stale : map[t] = i
                      THEN [records[w][i] EXCEPT
                              !.name = hostName[w][CHOOSE t \in stale : map[t] = i]]
                      ELSE records[w][i]]
       IN  /\ records' = [records EXCEPT ![w] = recs]
           /\ IF stale # {}
              THEN FireChange(w, recs)
              ELSE /\ UNCHANGED globalState
                   /\ fired' = {} /\ UNCHANGED refresh
    /\ lastTick' = NoTick /\ UNCHANGED cwdCall
    /\ UNCHANGED <<now, alive, hostVars, creationIndex, terminalIndexMap, persistedTerminals,
                   pending, prevStates, remoteTerminals, issued>>
    /\ lastPoll' = NoPoll
    /\ NoteWrites
    /\ UNCHANGED inflight


\* ------------------------------------------------------------------------
\* checkClaudeStates(), every CLAUDE_CHECK_INTERVAL_MS
\* ------------------------------------------------------------------------
\* [...pidToIdx.keys()]: the resolved process ids of the local records, in Map order
TerminalPids(recs) ==
    LET ks == SortedKeys({i \in DOMAIN recs : recs[i].processId # NoPid})
    IN  [k \in 1..Len(ks) |-> recs[ks[k]].processId]

\* the info written into a record: the detector's info with cwd and lastPrompt filled in
FilledInfo(info, cwdOf, prompt) ==
    IF info = NoInfo THEN NoInfo
    ELSE [info EXCEPT !.cwd = cwdOf[info.pid],
                      !.lastPrompt = IF cwdOf[info.pid] # NoCwd THEN prompt ELSE UNDEF]

\* RecordChanged that compares the CPU reading as well
RecordChanged_Cpu(record, state, info) ==
    \/ record.claudeState # state
    \/ /\ info # NoInfo
       /\ LET prev == record.claudeInfo
          IN  \/ prev = NoInfo
              \/ prev.pid # info.pid
              \/ prev.cwd # info.cwd
              \/ prev.cpu # info.cpu
              \/ prev.childProcessCount # info.childProcessCount
              \/ Len(prev.mcpServers) # Len(info.mcpServers)
              \/ prev.lastPrompt # info.lastPrompt
    \/ /\ info = NoInfo
       /\ record.claudeInfo # NoInfo

\* whether the loop body sets `changed` for a record, given the detector's answer
RecordChanged(record, state, info) ==
    \/ record.claudeState # state
    \/ /\ info # NoInfo
       /\ LET prev == record.claudeInfo
          IN  \/ prev = NoInfo
              \/ prev.pid # info.pid
              \/ prev.cwd # info.cwd
              \/ prev.childProcessCount # info.childProcessCount
              \/ Len(prev.mcpServers) # Len(info.mcpServers)
              \/ prev.lastPrompt # info.lastPrompt
    \/ /\ info = NoInfo
       /\ record.claudeInfo # NoInfo

\* the process ids a detected Claude process can have in the samples
ClaudePids == {r + k : r \in TermPids, k \in 1..3}

\* ps is what getAllProcesses() returns on this tick, cwdOf what batchResolveCwds
\* resolves for each detected process (NoCwd when lsof gives nothing), prompt what
\* the history cache holds for a resolved directory
CheckClaudeStates(w, ps, cwdOf, prompt) ==
    /\ alive[w]
    /\ UNCHANGED cwdCall
    /\ lastTick' = [w |-> w, ps |-> ps, roots |-> TerminalPids(records[w]),
                    before |-> prevStates[w], recs |-> records[w]]
    /\ LET terminalPids == TerminalPids(records[w])
       IN  IF Len(terminalPids) = 0
           THEN /\ UNCHANGED <<records, prevStates, globalState>>
                /\ fired' = {} /\ UNCHANGED refresh
           ELSE \E d \in {detectClaudeStates(prevStates[w], terminalPids, ps, now)} :
                LET infoOf(p) == FilledInfo(d.result[p].info, cwdOf, prompt)
                    touched == {i \in DOMAIN records[w] :
                                   records[w][i].processId \in DOMAIN d.result}
                    recs == [i \in DOMAIN records[w] |->
                               IF i \in touched
                               THEN [records[w][i] EXCEPT
                                       !.claudeState = d.result[records[w][i].processId].state,
                                       !.claudeInfo = infoOf(records[w][i].processId)]
                               ELSE records[w][i]]
                    changed == \E i \in touched :
                                  RecordChanged(records[w][i],
                                                d.result[records[w][i].processId].state,
                                                infoOf(records[w][i].processId))
                IN  /\ records' = [records EXCEPT ![w] = recs]
                    /\ prevStates' = [prevStates EXCEPT ![w] = d.mem]
                    /\ IF changed
                       THEN FireChange(w, recs)
                       ELSE /\ UNCHANGED globalState
                            /\ fired' = {} /\ UNCHANGED refresh
    /\ UNCHANGED <<now, alive, hostVars, creationIndex, terminalIndexMap, persistedTerminals,
                   pending, remoteTerminals, issued>>
    /\ lastPoll' = NoPoll
    /\ NoteWrites
    /\ UNCHANGED inflight

\* WindowManager.poll(), every REMOTE_POLL_INTERVAL_MS
Poll(w) ==
    /\ alive[w]
    /\ inflight[w] = NoInflight
    /\ LET p == poll(w, globalState, remoteTerminals[w], now)
       IN  /\ globalState' = p.gs
           /\ remoteTerminals' = [remoteTerminals EXCEPT ![w] = p.newRemote]
           /\ fired' = IF p.changed THEN {"manager"} ELSE {}
           /\ IF p.changed THEN Notify(w) ELSE UNCHANGED refresh
    /\ lastTick' = NoTick /\ UNCHANGED cwdCall
    /\ lastPoll' = [w |-> w, before |-> globalState, old |-> remoteTerminals[w],
                    quiet |-> ~dirty[w],
                    deleted |-> (DOMAIN globalState) \ (DOMAIN globalState'),
                    threw |-> poll(w, globalState, remoteTerminals[w], now).threw]
    /\ dirty' = [x \in Owners |->
                    IF x = w THEN FALSE ELSE dirty[x] \/ globalState' # globalState]
    /\ UNCHANGED <<now, alive, hostVars, trackerVars, prevStates, issued, inflight>>

\* poll() of window w taken apart into its store operations, for the runs in which
\* other windows' processes act between them.  PollStart: keys() and Date.now()
PollStart(w) ==
    /\ alive[w]
    /\ inflight[w] = NoInflight
    /\ inflight' = [inflight EXCEPT ![w] =
                       [keys |-> PollKeys(globalState), i |-> 1, t |-> now,
                        newRemote |-> <<>>, del |-> FALSE, deleted |-> {},
                        before |-> globalState, quiet |-> ~dirty[w]]]
    /\ dirty' = [dirty EXCEPT ![w] = FALSE]
    /\ fired' = {} /\ UNCHANGED refresh
    /\ lastTick' = NoTick /\ UNCHANGED cwdCall
    /\ lastPoll' = NoPoll
    /\ UNCHANGED <<now, globalState, alive, hostVars, trackerVars, prevStates,
                   remoteTerminals, issued>>

\* the loop body up to the staleness test: globalState.get(key) and what follows it
PollGet(w) ==
    /\ alive[w]
    /\ inflight[w].i \in 1..Len(inflight[w].keys)
    /\ ~inflight[w].del
    /\ LET f == inflight[w]
           key == f.keys[f.i]
       IN  inflight' = [inflight EXCEPT ![w] =
              IF key \notin DOMAIN globalState THEN [f EXCEPT !.i = f.i + 1]
              ELSE IF globalState[key].windowId = w THEN [f EXCEPT !.i = f.i + 1]
              ELSE IF f.t - globalState[key].lastUpdated > STALE_WINDOW_THRESHOLD_MS
              THEN [f EXCEPT !.del = TRUE]
              ELSE IF ~Iterable(globalState[key]) THEN NoInflight
              ELSE [f EXCEPT !.i = f.i + 1,
                             !.newRemote = f.newRemote \o RemoteOf(globalState[key])]]
    /\ fired' = {} /\ UNCHANGED refresh
    /\ lastTick' = NoTick /\ UNCHANGED cwdCall
    /\ lastPoll' = IF inflight'[w] = NoInflight
                   THEN [w |-> w, before |-> inflight[w].before,
                         old |-> remoteTerminals[w], quiet |-> inflight[w].quiet,
                         deleted |-> inflight[w].deleted, threw |-> TRUE]
                   ELSE NoPoll
    /\ UNCHANGED <<now, globalState, alive, hostVars, trackerVars, prevStates,
                   remoteTerminals, issued, dirty>>

\* globalState.update(key, undefined) for the key found stale
PollUpdate(w) ==
    /\ alive[w]
    /\ inflight[w].del
    /\ LET f == inflight[w]
           key == f.keys[f.i]
       IN  /\ globalState' = Del(globalState, key)
           /\ inflight' = [inflight EXCEPT ![w] =
                  [f EXCEPT !.del = FALSE, !.i = f.i + 1, !.deleted = f.deleted \cup {key}]]
    /\ dirty' = [x \in Owners |->
                    IF x = w THEN dirty[x] ELSE dirty[x] \/ globalState' # globalState]
    /\ fired' = {} /\ UNCHANGED refresh
    /\ lastTick' = NoTick /\ UNCHANGED cwdCall
    /\ lastPoll' = NoPoll
    /\ UNCHANGED <<now, alive, hostVars, trackerVars, prevStates, remoteTerminals, issued>>

\* after the loop: the comparison with remoteTerminals, the assignment and the event
PollFinish(w) ==
    /\ alive[w]
    /\ inflight[w].i > Len(inflight[w].keys)
    /\ LET f == inflight[w]
       IN  /\ remoteTerminals' = [remoteTerminals EXCEPT ![w] = f.newRemote]
           /\ fired' = IF PollChanged(f.newRemote, remoteTerminals[w])
                       THEN {"manager"} ELSE {}
           /\ IF PollChanged(f.newRemote, remoteTerminals[w])
              THEN Notify(w) ELSE UNCHANGED refresh
           /\ lastPoll' = [w |-> w, before |-> f.before, old |-> remoteTerminals[w],
                           quiet |-> f.quiet, deleted |-> f.deleted, threw |-> FALSE]
    /\ inflight' = [inflight EXCEPT ![w] = NoInflight]
    /\ lastTick' = NoTick /\ UNCHANGED cwdCall
    /\ UNCHANGED <<now, globalState, alive, hostVars, trackerVars, prevStates, issued, dirty>>

\* ------------------------------------------------------------------------
\* Specifications
\* ------------------------------------------------------------------------
\* every id a command handler can pass to setDisplayName for window w
RecordIds(w) == {RecordId(w, i) : i \in 0..(MaxIdx - 1)}

\* batchResolveCwds resolving every detected process to cwd (NoCwd: to nothing)
CwdAll(cwd) == [p \in ClaudePids |-> cwd]
NoCwds == CwdAll(NoCwd)

\* Spec: one session of one window with one terminal handle; every handler of the
\* tracker interleaved with the host's events and the classifier tick.
SpecTimes == {0, 1}
SpecShapes == {"absent", "busy"}

Next ==
    \/ AdvanceClock(SpecTimes)
    \/ Activate("w1")
    \/ \E n \in TermNames : OpenTerminal("w1", "t1", n)
    \/ CloseTerminal("w1", "t1")
    \/ \E n \in TermNames : RenameTerminal("w1", "t1", n)
    \/ Touch("w1", "t1")
    \/ \E id \in RecordIds("w1"), n \in NameInputs : SetDisplayName("w1", id, n)
    \/ \E i \in 0..(MaxIdx - 1), pid \in {10, NoPid}, cwd \in Cwds \cup {NoCwd} :
          ResolvePid("w1", i, pid, cwd)
    \/ CheckNameChanges("w1")
    \/ \E a \in SpecShapes : CheckClaudeStates("w1", PsOk(<<a, "absent">>), NoCwds, UNDEF)
    \/ \E a \in SpecShapes, cwd \in Cwds :
          CheckClaudeStates("w1", PsOk(<<a, "absent">>), CwdAll(cwd), "fix it")

Spec == Init /\ [][Next]_vars

\* SpecDetector: one window whose classifier ticks see every kind of sample, with the
\* clock around the instants 0 and APPROVAL_TIMEOUT_MS.
DetectorTimes == {0, 1, APPROVAL_TIMEOUT_MS, APPROVAL_TIMEOUT_MS + 1}
DetectorShapes == {"absent", "low", "edge", "busy"}

NextDetector ==
    \/ AdvanceClock(DetectorTimes)
    \/ Activate("w1")
    \/ OpenTerminal("w1", "t1", "zsh")
    \/ CloseTerminal("w1", "t1")
    \/ \E i \in 0..(MaxIdx - 1), pid \in {10, NoPid} : ResolvePid("w1", i, pid, NoCwd)
    \/ \E a \in DetectorShapes : CheckClaudeStates("w1", PsOk(<<a, "absent">>), NoCwds, UNDEF)
    \/ CheckClaudeStates("w1", PsFailed, NoCwds, UNDEF)

SpecDetector == Init /\ [][NextDetector]_vars

\* SpecRestore: one window with two terminal handles that is disposed and activated
\* again, so that registerTerminal meets persisted records.
RestoreTimes == {0, 1}

NextRestore ==
    \/ AdvanceClock(RestoreTimes)
    \/ Activate("w1")
    \/ Dispose("w1")
    \/ \E t \in Terminals, n \in TermNames : OpenTerminal("w1", t, n)
    \/ \E t \in Terminals : CloseTerminal("w1", t)
    \/ \E id \in RecordIds("w1") : SetDisplayName("w1", id, "mine")

SpecRestore == Init /\ [][NextRestore]_vars

\* SpecSync: two windows on the shared store, with the clock around the instants 0
\* and STALE_WINDOW_THRESHOLD_MS; the terminal is in window w1.
SyncTimes ==
    {0, 1, STALE_WINDOW_THRESHOLD_MS, STALE_WINDOW_THRESHOLD_MS + 1}

SyncOwners == {"w1", "w2"}

NextSync ==
    \/ AdvanceClock(SyncTimes)
    \/ \E w \in SyncOwners : Activate(w)
    \/ \E w \in SyncOwners : Dispose(w)
    \/ OpenTerminal("w1", "t1", "zsh")
    \/ CloseTerminal("w1", "t1")
    \/ Touch("w1", "t1")
    \/ \E w \in SyncOwners : Poll(w)

SpecSync == Init /\ [][NextSync]_vars

\* SpecTree: one window with one terminal whose classifier ticks see every shape of
\* process tree and every outcome of the directory and prompt look-ups.
TreeTimes == {0, 1}

NextTree ==
    \/ AdvanceClock(TreeTimes)
    \/ Activate("w1")
    \/ OpenTerminal("w1", "t1", "zsh")
    \/ ResolvePid("w1", 0, 10, NoCwd)
    \/ \E a \in Shapes : CheckClaudeStates("w1", PsOk(<<a, "absent">>), NoCwds, UNDEF)
    \/ \E a \in Shapes, cwd \in Cwds :
          CheckClaudeStates("w1", PsOk(<<a, "absent">>), CwdAll(cwd), "fix it")

SpecTree == Init /\ [][NextTree]_vars

\* SpecRace: owner w1 publishes while the readers w2 and w3 run poll() one store
\* operation at a time (the windows are separate processes on one store), with the
\* clock at 0 and just after STALE_WINDOW_THRESHOLD_MS.
RaceTimes == {0, STALE_WINDOW_THRESHOLD_MS + 1}
Readers == {"w2", "w3"}

NextRace ==
    \/ AdvanceClock(RaceTimes)
    \/ \E w \in Owners : Activate(w)
    \/ \E r \in Readers : Dispose(r)
    \/ OpenTerminal("w1", "t1", "zsh")
    \/ Touch("w1", "t1")
    \/ \E r \in Readers : PollStart(r)
    \/ \E r \in Readers : PollGet(r)
    \/ \E r \in Readers : PollUpdate(r)
    \/ \E r \in Readers : PollFinish(r)

SpecRace == Init /\ [][NextRace]_vars

\* ------------------------------------------------------------------------
\* Properties
\* ------------------------------------------------------------------------
\* the last step was a classifier tick of window w
Ticked(w) == lastTick.w = w
\* ... whose sample held a Claude descendant under the root pid
TickFound(pid) ==
    /\ lastTick.ps.ok
    /\ pid \in Range(lastTick.roots)
    /\ Found(lastTick.ps.key, pid) # NoProc
\* ... whose sample held none under the root pid
TickMissed(pid) ==
    /\ lastTick.ps.ok
    /\ pid \in Range(lastTick.roots)
    /\ Found(lastTick.ps.key, pid) = NoProc
\* ... and that descendant's CPU was not above the threshold
TickQuiet(pid) ==
    /\ TickFound(pid)
    /\ Found(lastTick.ps.key, pid).cpu <= CPU_GENERATING_THRESHOLD
\* the memory the tick started from had pid in the given state
Before(pid, state) ==
    /\ pid \in DOMAIN lastTick.before
    /\ lastTick.before[pid].state = state
\* the records of window w with process id pid carry the given claudeState
StateIs(w, pid, state) ==
    /\ \E i \in DOMAIN records[w] : records[w][i].processId = pid
    /\ \A i \in DOMAIN records[w] :
          records[w][i].processId = pid => records[w][i].claudeState = state

\* C1: while an owner is alive, the age of its snapshot in the shared store never
\* exceeds the staleness threshold, whatever the host does or does not do, and so no
\* step (no reader's poll) removes the snapshot of a live owner.
C1_LiveSnapshotFresh ==
    [][\A w \in Owners :
          (alive[w] /\ alive'[w] /\ w \in DOMAIN globalState) =>
              /\ w \in DOMAIN globalState'
              /\ now' - globalState'[w].lastUpdated <= STALE_WINDOW_THRESHOLD_MS]_vars

\* C2: a tick at time t on a root with a detected descendant whose CPU is not above
\* the threshold, with memory {generating, t0} and t > t0, returns approval and sets
\* the memory to {approval, t}.
C2_GeneratingThenQuietIsApproval ==
    \A pid \in TermPids :
       ( /\ Ticked("w1")
         /\ TickQuiet(pid)
         /\ Before(pid, "generating")
         /\ now > lastTick.before[pid].since )
       => /\ StateIs("w1", pid, "approval")
          /\ pid \in DOMAIN prevStates["w1"]
          /\ prevStates["w1"][pid] = [state |-> "approval", since |-> now]

\* a tick at time 1 met memory {generating, 0} and a descendant at the threshold
C2_Witness ==
    /\ now = 1
    /\ Ticked("w1")
    /\ TickQuiet(10)
    /\ Found(lastTick.ps.key, 10).cpu = CPU_GENERATING_THRESHOLD
    /\ Before(10, "generating")
    /\ lastTick.before[10].since = 0
    /\ prevStates["w1"][10] = [state |-> "approval", since |-> 1]

\* C3 as stated: on a root with a detected quiet descendant and memory
\* {approval, since}, a tick at time now returns idle and sets the memory to
\* {idle, now} if and only if now - since >= APPROVAL_TIMEOUT_MS; otherwise it
\* returns approval.
C3_IdleIffTimeoutReached ==
    \A pid \in TermPids :
       (Ticked("w1") /\ TickQuiet(pid) /\ Before(pid, "approval"))
       => IF now - lastTick.before[pid].since >= APPROVAL_TIMEOUT_MS
          THEN /\ StateIs("w1", pid, "idle")
               /\ prevStates["w1"][pid] = [state |-> "idle", since |-> now]
          ELSE StateIs("w1", pid, "approval")

\* C3, amended: the tick returns idle and sets the memory to {idle, now} if and only
\* if now - since > APPROVAL_TIMEOUT_MS; otherwise (equality included) it returns
\* approval and leaves the memory as it was.
C3_IdleIffTimeoutExceeded ==
    \A pid \in TermPids :
       (Ticked("w1") /\ TickQuiet(pid) /\ Before(pid, "approval"))
       => IF now - lastTick.before[pid].since > APPROVAL_TIMEOUT_MS
          THEN /\ StateIs("w1", pid, "idle")
               /\ prevStates["w1"][pid] = [state |-> "idle", since |-> now]
          ELSE /\ StateIs("w1", pid, "approval")
               /\ prevStates["w1"][pid] = lastTick.before[pid]

\* a tick exactly APPROVAL_TIMEOUT_MS after the entry into approval has run and the
\* root is still in approval
C3_Witness ==
    /\ now = APPROVAL_TIMEOUT_MS
    /\ Ticked("w1")
    /\ TickQuiet(10)
    /\ Before(10, "approval")
    /\ lastTick.before[10].since = 0
    /\ StateIs("w1", 10, "approval")
    /\ prevStates["w1"][10] = [state |-> "approval", since |-> 0]

\* C4: while a root stays in approval from one state to the next its since is not
\* changed, and the tick that finds the descendant quiet more than
\* APPROVAL_TIMEOUT_MS after that since (the entry into approval) takes the root
\* to idle.
C4_ApprovalNotRearmed ==
    [][\A pid \in TermPids :
          /\ ( /\ pid \in DOMAIN prevStates["w1"]
               /\ prevStates["w1"][pid].state = "approval"
               /\ pid \in DOMAIN prevStates'["w1"]
               /\ prevStates'["w1"][pid].state = "approval" )
             => prevStates'["w1"][pid].since = prevStates["w1"][pid].since
          /\ ( /\ Ticked("w1")'
               /\ TickQuiet(pid)'
               /\ pid \in DOMAIN prevStates["w1"]
               /\ prevStates["w1"][pid].state = "approval"
               /\ now - prevStates["w1"][pid].since > APPROVAL_TIMEOUT_MS )
             => /\ StateIs("w1", pid, "idle")'
                /\ prevStates'["w1"][pid].state = "idle"]_vars

\* the root entered approval at time 0 and a tick at the first instant more than
\* APPROVAL_TIMEOUT_MS later has taken it to idle
C4_Witness ==
    /\ now = APPROVAL_TIMEOUT_MS + 1
    /\ Ticked("w1")
    /\ TickQuiet(10)
    /\ Before(10, "approval")
    /\ lastTick.before[10].since = 0
    /\ StateIs("w1", 10, "idle")
    /\ prevStates["w1"][10] = [state |-> "idle", since |-> APPROVAL_TIMEOUT_MS + 1]

\* C5: a tick whose sample holds no Claude descendant for a root returns none for it
\* and removes its memory; a tick that finds a quiet descendant for a root without
\* memory returns idle, whatever the memory was before the descendant disappeared.
C5_AbsentClearsMemory ==
    \A pid \in TermPids :
       /\ (Ticked("w1") /\ TickMissed(pid))
          => /\ StateIs("w1", pid, "none")
             /\ pid \notin DOMAIN prevStates["w1"]
       /\ (Ticked("w1") /\ TickQuiet(pid) /\ pid \notin DOMAIN lastTick.before)
          => /\ StateIs("w1", pid, "idle")
             /\ prevStates["w1"][pid] = [state |-> "idle", since |-> now]

\* a tick met memory {generating, ..} and a sample without the descendant
C5_Witness ==
    /\ Ticked("w1")
    /\ TickMissed(10)
    /\ Before(10, "generating")
    /\ StateIs("w1", 10, "none")
    /\ 10 \notin DOMAIN prevStates["w1"]

\* C6: after every classifier tick, succeeded or failed, the memory holds an entry
\* for a root pid only if that tick found a Claude descendant for that root.
C6_MemoryOnlyWhileDetected ==
    Ticked("w1") => \A pid \in DOMAIN prevStates["w1"] : TickFound(pid)

\* C7: ids are never reused: no id registerTerminal assigns, at a terminal's opening
\* or in the constructor of a new activation, was assigned before.  (A handle that
\* gets again the id it held when the previous session ended is not counted.)
C7_IdsNeverReused ==
    [][/\ (alive["w1"] /\ creationIndex'["w1"] = creationIndex["w1"] + 1) =>
             RecordId("w1", creationIndex["w1"]) \notin issued
       /\ (~alive["w1"] /\ alive'["w1"]) =>
             \A k \in 1..Len(hostTerminals["w1"]) :
                LET t == hostTerminals["w1"][k]
                IN  RecordId("w1", k - 1) \in issued =>
                       /\ t \in DOMAIN terminalIndexMap["w1"]
                       /\ terminalIndexMap["w1"][t] = k - 1]_vars

\* C8: while a window's session lasts, the lastActivity of a record never decreases
\* from one state to the next, whichever handler runs.
C8_LastActivityMonotone ==
    [][(alive["w1"] /\ alive'["w1"]) =>
          \A i \in (DOMAIN records["w1"]) \cap (DOMAIN records'["w1"]) :
             records'["w1"][i].lastActivity >= records["w1"][i].lastActivity]_vars

\* a record created at time 0 has been touched at time 1
C8_Witness ==
    /\ alive["w1"]
    /\ now = 1
    /\ \E i \in DOMAIN records["w1"] :
          /\ records["w1"][i].createdAt = 0
          /\ records["w1"][i].lastActivity = 1
          /\ records["w1"][i].processId = 10

\* C9: a step that changes the displayName of a record whose displayNameIsCustom is
\* true is a call of setDisplayName.
C9_CustomNameOnlyBySetDisplayName ==
    [][(alive["w1"] /\ alive'["w1"]) =>
          \A i \in (DOMAIN records["w1"]) \cap (DOMAIN records'["w1"]) :
             ( /\ records["w1"][i].displayNameIsCustom = "true"
               /\ records'["w1"][i].displayName # records["w1"][i].displayName )
             => \E id \in RecordIds("w1"), n \in NameInputs : SetDisplayName("w1", id, n)]_vars

\* the process id of a record settled, with a resolvable directory or not, after the
\* user had named the record: the published snapshot still has no process id, and
\* the name is the user's
C9_Witness ==
    /\ alive["w1"]
    /\ "w1" \in DOMAIN globalState
    /\ \E i \in DOMAIN records["w1"] :
          /\ records["w1"][i].displayNameIsCustom = "true"
          /\ records["w1"][i].displayName = "mine"
          /\ records["w1"][i].processId = 10
          /\ i \notin pending["w1"]
          /\ \E k \in 1..Len(globalState["w1"].terminals) :
                /\ globalState["w1"].terminals[k].id = records["w1"][i].id
                /\ globalState["w1"].terminals[k].displayName = "mine"
                /\ globalState["w1"].terminals[k].processId = NoPid

\* the first position of persisted whose name is name, 0 when there is none
FirstMatch(persisted, name) ==
    IF \E k \in 1..Len(persisted) : persisted[k].name = name
    THEN CHOOSE k \in 1..Len(persisted) :
            /\ persisted[k].name = name
            /\ \A j \in 1..Len(persisted) : persisted[j].name = name => k <= j
    ELSE 0
\* persisted once the first match of name is consumed
Unconsumed(persisted, name) ==
    LET m == FirstMatch(persisted, name)
    IN  IF m = 0 THEN persisted
        ELSE [k \in 1..(Len(persisted) - 1) |->
                 IF k < m THEN persisted[k] ELSE persisted[k + 1]]
\* rec is the record a handle named name must get at time t, given persisted
Correlated(rec, persisted, name, t) ==
    LET m == FirstMatch(persisted, name)
    IN  /\ rec.name = name
        /\ IF m = 0
           THEN /\ rec.displayName = UNDEF
                /\ rec.lastActivity = t
                /\ rec.createdAt = t
           ELSE /\ rec.displayName = persisted[m].displayName
                /\ rec.displayNameIsCustom = persisted[m].displayNameIsCustom
                /\ rec.lastActivity = persisted[m].lastActivity
                /\ rec.createdAt = persisted[m].createdAt
RECURSIVE CorrelatedInOrder(_, _, _, _, _, _, _)
\* the handles terms[k..] got the records k-1.. in order, each one correlated with what
\* the earlier ones left unconsumed, and left is what remains at the end
CorrelatedInOrder(recs, persisted, terms, names, k, t, left) ==
    IF k > Len(terms) THEN left = persisted
    ELSE /\ (k - 1) \in DOMAIN recs
         /\ Correlated(recs[k - 1], persisted, names[terms[k]], t)
         /\ CorrelatedInOrder(recs, Unconsumed(persisted, names[terms[k]]), terms, names,
                              k + 1, t, left)

\* C10: every register, at a terminal's opening or in the constructor, correlates the
\* handle with the first unconsumed persisted record of the same raw name, copies its
\* displayName, custom flag, lastActivity and createdAt and consumes it; without such
\* a record the new record has no displayName and lastActivity = createdAt = now.
C10_RegisterCorrelatesFirstMatch ==
    [][/\ (~alive["w1"] /\ alive'["w1"]) =>
             CorrelatedInOrder(records'["w1"],
                               IF "w1" \in DOMAIN globalState
                               THEN globalState["w1"].terminals ELSE <<>>,
                               hostTerminals["w1"], hostName["w1"], 1, now,
                               persistedTerminals'["w1"])
       /\ (alive["w1"] /\ creationIndex'["w1"] = creationIndex["w1"] + 1) =>
             LET idx == creationIndex["w1"]
                 t == hostTerminals'["w1"][Len(hostTerminals'["w1"])]
             IN  /\ idx \in DOMAIN records'["w1"]
                 /\ Correlated(records'["w1"][idx], persistedTerminals["w1"],
                               hostName'["w1"][t], now)
                 /\ persistedTerminals'["w1"] =
                       Unconsumed(persistedTerminals["w1"], hostName'["w1"][t])]_vars

\* after a restart, the one handle registered so far took the user's name from the
\* first of two persisted records of its raw name; the second one is left unconsumed
C10_Witness ==
    /\ alive["w1"]
    /\ now = 1
    /\ creationIndex["w1"] = 1
    /\ 0 \in DOMAIN records["w1"]
    /\ records["w1"][0].name = "zsh"
    /\ records["w1"][0].displayName = "mine"
    /\ records["w1"][0].displayNameIsCustom = "true"
    /\ records["w1"][0].createdAt = 0
    /\ Len(persistedTerminals["w1"]) = 1
    /\ persistedTerminals["w1"][1].name = "zsh"
    /\ persistedTerminals["w1"][1].displayName = UNDEF
    /\ persistedTerminals["w1"][1].id = RecordId("w1", 1)

\* the last step completed a synchronizer tick of reader r that started from a store
\* holding a snapshot under the foreign key k
Polled(r, k) ==
    /\ lastPoll.w = r
    /\ k # r
    /\ k \in DOMAIN lastPoll.before
\* the merged view of reader r holds an entity of owner k
InView(r, k) == \E i \in 1..Len(remoteTerminals[r]) : remoteTerminals[r][i].windowId = k

\* C11 as stated: a foreign snapshot whose age is >= STALE_WINDOW_THRESHOLD_MS at a
\* reader's synchronizer tick is, after that tick, absent from the reader's merged
\* view and its key is deleted from the store.
C11_StaleReachedIsPurged ==
    \A r \in Owners, k \in Owners :
       (Polled(r, k) /\ now - lastPoll.before[k].lastUpdated >= STALE_WINDOW_THRESHOLD_MS)
       => /\ k \notin DOMAIN globalState
          /\ ~InView(r, k)

\* C11, amended: the snapshot is purged by the tick when its age is greater than
\* STALE_WINDOW_THRESHOLD_MS; at an age up to and including the threshold the key is
\* kept and the snapshot's entities are in the reader's merged view.
C11_StaleExceededIsPurged ==
    \A r \in Owners, k \in Owners :
       Polled(r, k)
       => IF now - lastPoll.before[k].lastUpdated > STALE_WINDOW_THRESHOLD_MS
          THEN /\ k \notin DOMAIN globalState
               /\ ~InView(r, k)
          ELSE /\ k \in DOMAIN globalState
               /\ globalState[k] = lastPoll.before[k]
               /\ (lastPoll.before[k].terminals # <<>> => InView(r, k))

\* reader w2, which had w1's terminal in its view, polled at the first instant after
\* the threshold and purged the snapshot w1 published at time 0
C11_Witness ==
    /\ now = STALE_WINDOW_THRESHOLD_MS + 1
    /\ Polled("w2", "w1")
    /\ lastPoll.before["w1"].lastUpdated = 0
    /\ lastPoll.before["w1"].terminals # <<>>
    /\ lastPoll.old # <<>>
    /\ "w1" \notin DOMAIN globalState
    /\ remoteTerminals["w2"] = <<>>

\* the last step completed a synchronizer tick of reader r, and no process had written
\* to the store since r's previous tick
PolledQuiet(r) ==
    /\ lastPoll.w = r
    /\ lastPoll.quiet

C13_OwnKeyOnly ==
    [][\A k \in Owners :
          /\ ( /\ k \in DOMAIN globalState'
               /\ (k \notin DOMAIN globalState \/ globalState'[k] # globalState[k]) )
             => /\ lastPoll'.w = UNDEF
                /\ globalState'[k].windowId = k
                /\ globalState'[k] = WindowStateOf(k, records'[k], now')
                /\ \A j \in Owners \ {k} :
                      /\ (j \in DOMAIN globalState) = (j \in DOMAIN globalState')
                      /\ j \in DOMAIN globalState => globalState'[j] = globalState[j]
          /\ (k \in DOMAIN globalState /\ k \notin DOMAIN globalState')
             => /\ lastPoll'.w \in Owners \ {k}
                /\ now - globalState[k].lastUpdated > STALE_WINDOW_THRESHOLD_MS]_vars

\* reader w2, which has a snapshot of its own in the store, has purged w1's stale
\* snapshot; its own, equally old, is where it was
C13_Witness ==
    /\ lastPoll.w = "w2"
    /\ "w1" \in lastPoll.deleted
    /\ "w2" \in DOMAIN lastPoll.before
    /\ now - lastPoll.before["w2"].lastUpdated > STALE_WINDOW_THRESHOLD_MS
    /\ "w2" \in DOMAIN globalState
    /\ globalState["w2"] = lastPoll.before["w2"]
    /\ "w1" \notin DOMAIN globalState

\* C14: whatever the interleaving of a reader's tick with the owner's publishes, a
\* step that removes a key removes a snapshot whose age at that moment is greater
\* than STALE_WINDOW_THRESHOLD_MS.
C14_DeletesOnlyStale ==
    [][\A k \in Owners :
          (k \in DOMAIN globalState /\ k \notin DOMAIN globalState')
          => now - globalState[k].lastUpdated > STALE_WINDOW_THRESHOLD_MS]_vars

\* reader r has just issued the deletion of the key it found stale
Deleting(r, k) ==
    /\ inflight[r].del
    /\ inflight[r].keys[inflight[r].i] = k
    /\ ~inflight'[r].del

\* C15: when readers delete the same stale foreign snapshot, in either order or
\* interleaved, every deletion goes through (also the one that finds the key gone),
\* the key is absent after it, no other key is added, removed or changed, and the
\* reader's tick goes on.
C15_RacingDeletesIdempotent ==
    [][\A r \in Readers, k \in Owners :
          Deleting(r, k)
          => /\ k \notin DOMAIN globalState'
             /\ \A j \in Owners \ {k} :
                   /\ (j \in DOMAIN globalState) = (j \in DOMAIN globalState')
                   /\ j \in DOMAIN globalState => globalState'[j] = globalState[j]
             /\ inflight'[r].i = inflight[r].i + 1
             /\ k \in inflight'[r].deleted]_vars

\* readers w2 and w3 both read w1's snapshot while it was stale and both have deleted
\* it, while the other's tick was under way; w3's tick is complete, the key is
\* absent and the snapshot under w3's own key is where it was
C15_Witness ==
    /\ lastPoll.w = "w3"
    /\ "w1" \in lastPoll.deleted
    /\ "w1" \in DOMAIN lastPoll.before
    /\ "w1" \in inflight["w2"].deleted
    /\ inflight["w2"].before["w1"] = lastPoll.before["w1"]
    /\ "w1" \notin DOMAIN globalState
    /\ "w3" \in DOMAIN globalState
    /\ globalState["w3"] = lastPoll.before["w3"]

\* what a step can mutate in the local records of window w: the serialized fields of
\* every record, and its classifier state
Mutable(recs) == [i \in DOMAIN recs |-> [summary |-> Summary(recs[i]),
                                         claudeState |-> recs[i].claudeState]]

\* C16: after every step that mutates the local records of a window (register, in the
\* constructor too; unregister; touch; setDisplayName; a detected rename; the
\* resolution of a process id; a change of classifier state), the value under the
\* window's key is the serialization of its records, with lastUpdated the time of
\* the step.
C16_EveryMutationPublished ==
    [][(alive'["w1"] /\ Mutable(records'["w1"]) # Mutable(records["w1"]))
          => /\ "w1" \in DOMAIN globalState'
             /\ globalState'["w1"] = WindowStateOf("w1", records'["w1"], now')]_vars

\* C17: a classifier tick whose process query fails is no information: no record's
\* classifier state or diagnostics changes in that step and no change notification
\* is fired by it.
C17_FailedTickChangesNothing ==
    [][(Ticked("w1")' /\ ~lastTick'.ps.ok)
          => /\ \A i \in DOMAIN records["w1"] :
                   /\ records'["w1"][i].claudeState = records["w1"][i].claudeState
                   /\ records'["w1"][i].claudeInfo = records["w1"][i].claudeInfo
             /\ fired' = {}]_vars

\* the display-relevant diagnostics of a record as C18 lists them: resolved directory,
\* descendant count, sub-component list, derived free-text field
Listed(info) ==
    [cwd |-> info.cwd, childProcessCount |-> info.childProcessCount,
     mcpServers |-> info.mcpServers, lastPrompt |-> info.lastPrompt]

\* the last step was a classifier tick of w1 that fired a change notification
TickNotified == Ticked("w1") /\ "tracker" \in fired

\* C18 as stated: a classifier tick fires a change notification only if for some
\* record the classifier state changed or one of the listed diagnostics changed.
C18_NotifiesOnlyOnListedChange ==
    TickNotified
    => \E i \in DOMAIN lastTick.recs :
          \/ records["w1"][i].claudeState # lastTick.recs[i].claudeState
          \/ Listed(records["w1"][i].claudeInfo) # Listed(lastTick.recs[i].claudeInfo)

\* C18, amended: ... or the pid of the detected process changed; a tick that differs
\* from the previous one in CPU, RSS or elapsed time only fires no notification.
C18_NotifiesOnlyOnListedOrPidChange ==
    TickNotified
    => \E i \in DOMAIN lastTick.recs :
          \/ records["w1"][i].claudeState # lastTick.recs[i].claudeState
          \/ Listed(records["w1"][i].claudeInfo) # Listed(lastTick.recs[i].claudeInfo)
          \/ records["w1"][i].claudeInfo.pid # lastTick.recs[i].claudeInfo.pid

\* a tick found the same process in the same state with another CPU reading, wrote
\* the new reading into the record and fired nothing
C18_Witness ==
    /\ Ticked("w1")
    /\ fired = {}
    /\ \E i \in DOMAIN lastTick.recs :
          /\ lastTick.recs[i].claudeInfo # NoInfo
          /\ records["w1"][i].claudeInfo # NoInfo
          /\ lastTick.recs[i].claudeInfo.cpu = 0
          /\ records["w1"][i].claudeInfo.cpu = CPU_GENERATING_THRESHOLD
          /\ records["w1"][i].claudeState = "idle"

\* the children of every pid of a level, in order: the next level of a breadth-first walk
RECURSIVE NextLevel(_, _, _)
NextLevel(procs, level, i) ==
    IF i > Len(level) THEN <<>>
    ELSE ChildrenOf(procs, level[i]) \o NextLevel(procs, level, i + 1)

\* the first process, in breadth-first order from the given level on, whose command
\* line matches; NoProc when there is none
RECURSIVE BreadthFirst(_, _)
BreadthFirst(procs, level) ==
    IF level = <<>> THEN NoProc
    ELSE LET hits == {i \in 1..Len(level) :
                        /\ ProcOf(procs, level[i]) # NoProc
                        /\ isClaudeProcess(ProcOf(procs, level[i]).command)}
         IN  IF hits # {}
             THEN ProcOf(procs, level[CHOOSE i \in hits : \A j \in hits : i <= j])
             ELSE BreadthFirst(procs, NextLevel(procs, level, 1))

\* C19: the descendant a tick selects for a root is the first matching process in
\* breadth-first order over the parent-to-children relation (children in sample
\* order): none at a smaller depth is passed over for a deeper one.
C19_SelectsBreadthFirst ==
    \A pid \in TermPids :
       (Ticked("w1") /\ TickFound(pid))
       => LET procs == Sample(lastTick.ps.key[1], lastTick.ps.key[2])
              first == BreadthFirst(procs, ChildrenOf(procs, pid))
          IN  \A i \in DOMAIN records["w1"] :
                 records["w1"][i].processId = pid
                 => records["w1"][i].claudeInfo.pid = first.pid

\* the command line's leading token is word
LeadingToken(command, word) ==
    /\ MatchAt(command, word, 1)
    /\ (Len(command) = Len(word) \/ command[Len(word) + 1] = " ")
\* the command line invokes one of the generic search/listing tools
InvokesSearchTool(command) == \E w \in SearchTools : LeadingToken(command, w)
\* the program name is the leading token, or the last segment of a path, before arguments
NamesClaude(command) ==
    \/ LeadingToken(command, ClaudeWord)
    \/ \E i \in 1..Len(command) :
          /\ MatchAt(command, <<"/">> \o ClaudeWord, i)
          /\ (i + 7 = Len(command) + 1 \/ command[i + 7] = " ")

\* C20: on every tick, the process selected for a root has no path into .claude/ in
\* its command line and does not invoke a search/listing tool; a child of the root
\* whose command line has claude as its leading token, or as the last segment of the
\* program path before the arguments, is accepted (the root is not left without a
\* detected process); and for the selected command line
\* "claude --dangerously-skip-permissions" the diagnostics' skipPermissions is true.
C20_MatcherAcceptsTheProgramOnly ==
    \A pid \in TermPids :
       (Ticked("w1") /\ lastTick.ps.ok /\ pid \in Range(lastTick.roots))
       => LET procs == Sample(lastTick.ps.key[1], lastTick.ps.key[2])
              sel == Found(lastTick.ps.key, pid)
          IN  /\ sel # NoProc
                 => /\ ~includes(sel.command, DotClaudeSlash)
                    /\ ~InvokesSearchTool(sel.command)
              /\ \A k \in 1..Len(procs) :
                    ( /\ procs[k].ppid = pid
                      /\ NamesClaude(procs[k].command)
                      /\ ~includes(procs[k].command, DotClaudeSlash)
                      /\ ~InvokesSearchTool(procs[k].command) )
                    => /\ sel # NoProc
                       /\ ~StateIs("w1", pid, "none")
              /\ (sel # NoProc /\ sel.command = CmdClaudeSkip)
                 => \A i \in DOMAIN records["w1"] :
                       records["w1"][i].processId = pid
                       => records["w1"][i].claudeInfo.skipPermissions

\* ------------------------------------------------------------------------
\* Store values that are not WindowStates
\* ------------------------------------------------------------------------
\* a value under a prefixed key that has windowId and lastUpdated but no terminals
\* list; globalState.get<WindowState>(key) hands it to poll() unchecked
Malformed(k, t) == [windowId |-> k, windowName |-> WindowName(k), lastUpdated |-> t]

\* a writer that is not this program stores such a value under key k
StoreMalformed(k) ==
    /\ ~alive[k]
    /\ k \notin DOMAIN globalState
    /\ globalState' = Put(globalState, k, Malformed(k, now))
    /\ fired' = {} /\ UNCHANGED refresh
    /\ lastTick' = NoTick /\ UNCHANGED cwdCall
    /\ lastPoll' = NoPoll
    /\ NoteWrites
    /\ UNCHANGED <<now, alive, hostVars, trackerVars, prevStates, remoteTerminals,
                   issued, inflight>>

\* SpecMalformed: window w1 publishes its terminal, window w2 reads, and the value
\* under key w3 has no terminals list.
MalformedTimes == {0, 1, STALE_WINDOW_THRESHOLD_MS + 1}

NextMalformed ==
    \/ AdvanceClock(MalformedTimes)
    \/ \E w \in SyncOwners : Activate(w)
    \/ OpenTerminal("w1", "t1", "zsh")
    \/ Touch("w1", "t1")
    \/ CloseTerminal("w1", "t1")
    \/ StoreMalformed("w3")
    \/ \E w \in SyncOwners : Poll(w)

SpecMalformed == Init /\ [][NextMalformed]_vars

\* C21: a synchronizer tick that meets a store entry under the prefix whose value is
\* absent or has no well-formed entity list skips that entry and completes, and the
\* entities of every other foreign entry that is not stale are in the reader's merged
\* view after it.
C21_MalformedEntrySkipped ==
    \A r \in Owners :
       lastPoll.w = r
       => /\ ~lastPoll.threw
          /\ \A k \in (DOMAIN lastPoll.before) \ {r} :
                ( /\ Iterable(lastPoll.before[k])
                  /\ lastPoll.before[k].terminals # <<>>
                  /\ now - lastPoll.before[k].lastUpdated <= STALE_WINDOW_THRESHOLD_MS )
                => InView(r, k)

\* the record of terminal t in window w has no process id
Unresolved(w, t) ==
    /\ t \in DOMAIN terminalIndexMap[w]
    /\ terminalIndexMap[w][t] \in DOMAIN records[w]
    /\ records[w][terminalIndexMap[w][t]].processId = NoPid

\* C22: a record whose process id never resolves, or resolves to no value, stays in
\* the local view until its terminal is closed and is served by touch, setDisplayName
\* and unregister like any other; its pid is never handed to the detector, its
\* claudeState and claudeInfo are never set, and no step other than setDisplayName
\* changes its displayName.
C22_UnresolvedNeverClassified ==
    /\ [](\A i \in DOMAIN records["w1"] :
             records["w1"][i].processId = NoPid
             => /\ records["w1"][i].claudeState = UNDEF
                /\ records["w1"][i].claudeInfo = NoInfo)
    /\ [][(alive["w1"] /\ Unresolved("w1", "t1"))
          => LET i == terminalIndexMap["w1"]["t1"]
             IN  /\ i \in DOMAIN records'["w1"] \/ CloseTerminal("w1", "t1")
                 /\ CloseTerminal("w1", "t1")
                    => /\ i \notin DOMAIN records'["w1"]
                       /\ globalState'["w1"].terminals = <<>>
                 /\ Touch("w1", "t1")
                    => /\ records'["w1"][i].lastActivity = now
                       /\ globalState'["w1"].terminals[1].lastActivity = now
                 /\ \A n \in NameInputs :
                       SetDisplayName("w1", records["w1"][i].id, n)
                       => globalState'["w1"].terminals[1].displayName =
                             (IF n = "" THEN UNDEF ELSE n)
                 /\ lastTick'.w = "w1" => lastTick'.roots = <<>>
                 /\ ( /\ i \in DOMAIN records'["w1"]
                      /\ records'["w1"][i].processId = NoPid
                      /\ records'["w1"][i].displayName # records["w1"][i].displayName )
                    => \E n \in NameInputs :
                          SetDisplayName("w1", records["w1"][i].id, n)]_vars

\* the process id of the terminal's record has resolved to no value; the record has
\* since been touched and named by the user, and a classifier tick with a busy
\* process tree has just left it unclassified
C22_Witness ==
    /\ alive["w1"]
    /\ Unresolved("w1", "t1")
    /\ terminalIndexMap["w1"]["t1"] \notin pending["w1"]
    /\ now = 1
    /\ lastTick.w = "w1"
    /\ lastTick.ps.key[1] = "busy"
    /\ LET r == records["w1"][terminalIndexMap["w1"]["t1"]]
       IN  /\ r.createdAt = 0
           /\ r.lastActivity = 1
           /\ r.displayName = "mine"
           /\ r.claudeState = UNDEF

\* SpecRename: window w1 names its terminal, shuts down and is activated again, while
\* window w2 polls the store and the clock passes STALE_WINDOW_THRESHOLD_MS.
NextRename ==
    \/ AdvanceClock(SyncTimes)
    \/ \E w \in SyncOwners : Activate(w)
    \/ Dispose("w1")
    \/ OpenTerminal("w1", "t1", "zsh")
    \/ \E id \in RecordIds("w1") : SetDisplayName("w1", id, "mine")
    \/ Poll("w2")

SpecRename == Init /\ [][NextRename]_vars

\* C23: when window w1 is activated again after a shutdown, every open terminal whose
\* name is that of a record that had a custom displayName at the shutdown is registered
\* with that displayName and with displayNameIsCustom true, however long the window
\* was closed and whatever synchronizer ticks other windows ran in the meantime.
C23_CustomNameSurvivesRestart ==
    [][(~alive["w1"] /\ alive'["w1"])
       => \A i \in DOMAIN records["w1"] :
             ( /\ records["w1"][i].displayNameIsCustom = "true"
               /\ \E t \in Range(hostTerminals["w1"]) :
                     hostName["w1"][t] = records["w1"][i].name )
             => \E j \in DOMAIN records'["w1"] :
                   /\ records'["w1"][j].name = records["w1"][i].name
                   /\ records'["w1"][j].displayName = records["w1"][i].displayName
                   /\ records'["w1"][j].displayNameIsCustom = "true"]_vars

\* SpecRoundTrip: one window with two terminals, whose records are named, touched and
\* classified before they are published.
NextRoundTrip ==
    \/ AdvanceClock(SpecTimes)
    \/ Activate("w1")
    \/ \E t \in Terminals : OpenTerminal("w1", t, "zsh")
    \/ \E t \in Terminals : CloseTerminal("w1", t)
    \/ Touch("w1", "t2")
    \/ \E id \in RecordIds("w1"), n \in NameInputs \cup {UNDEF} :
          SetDisplayName("w1", id, n)
    \/ \E i \in 0..(MaxIdx - 1) : ResolvePid("w1", i, 10, NoCwd)
    \/ CheckClaudeStates("w1", PsOk(<<"busy", "low">>), NoCwds, UNDEF)

SpecRoundTrip == Init /\ [][NextRoundTrip]_vars

\* C24: what loadFromGlobalState reads back after a publish of window w1 has one entry
\* for each local record, in the order of getLocalRecords, with the record's id, name,
\* displayName, displayNameIsCustom, lastActivity and createdAt, and with neither
\* claudeInfo nor claudeState.
C24_PersistLoadRoundTrip ==
    ("persist" \in fired)
    => LET read  == loadFromGlobalState(globalState, "w1")
           local == getLocalRecords(records["w1"])
       IN  /\ Len(read) = Len(local)
           /\ \A k \in 1..Len(local) :
                 /\ read[k].id = local[k].id
                 /\ read[k].name = local[k].name
                 /\ read[k].displayName = local[k].displayName
                 /\ read[k].displayNameIsCustom = local[k].displayNameIsCustom
                 /\ read[k].lastActivity = local[k].lastActivity
                 /\ read[k].createdAt = local[k].createdAt
                 /\ "claudeInfo" \notin DOMAIN read[k]
                 /\ "claudeState" \notin DOMAIN read[k]

\* a publish of two records, the first classified and with a diagnostic snapshot, the
\* second named by the user and touched after its creation
C24_Witness ==
    /\ "persist" \in fired
    /\ LET local == getLocalRecords(records["w1"])
       IN  /\ Len(local) = 2
           /\ local[1].claudeInfo # NoInfo
           /\ local[1].displayName = UNDEF
           /\ local[2].displayName = "mine"
           /\ local[2].createdAt = 0
           /\ local[2].lastActivity = 1
           /\ Len(globalState["w1"].terminals) = 2

\* C25: setDisplayName(id, name) on an existing record sets displayName to name and
\* displayNameIsCustom to true when name is a non-empty string, and clears displayName
\* and sets displayNameIsCustom to false when name is empty or absent; it changes no
\* other field of the record, no other record, and adds or removes none.
C25_SetDisplayNameEffect ==
    [][\A id \in RecordIds("w1"), n \in NameInputs \cup {UNDEF} :
          ( /\ SetDisplayName("w1", id, n)
            /\ \E i \in DOMAIN records["w1"] : records["w1"][i].id = id )
          => LET i == CHOOSE i \in DOMAIN records["w1"] : records["w1"][i].id = id
                 given == n \notin {"", UNDEF}
             IN  /\ DOMAIN records'["w1"] = DOMAIN records["w1"]
                 /\ records'["w1"][i].displayName = (IF given THEN n ELSE UNDEF)
                 /\ records'["w1"][i].displayNameIsCustom =
                       (IF given THEN "true" ELSE "false")
                 /\ records'["w1"][i] =
                       [records["w1"][i] EXCEPT
                          !.displayName = records'["w1"][i].displayName,
                          !.displayNameIsCustom = records'["w1"][i].displayNameIsCustom]
                 /\ \A j \in (DOMAIN records["w1"]) \ {i} :
                       records'["w1"][j] = records["w1"][j]]_vars

\* of two records named by the user, the name of the second has been cleared again:
\* it has no displayName and is marked not custom, and the first still has its name
C25_Witness ==
    /\ "persist" \in fired
    /\ LET local == getLocalRecords(records["w1"])
       IN  /\ Len(local) = 2
           /\ local[1].displayName = "mine"
           /\ local[1].displayNameIsCustom = "true"
           /\ local[1].claudeInfo # NoInfo
           /\ local[2].displayName = UNDEF
           /\ local[2].displayNameIsCustom = "false"

\* C26: the step in which the host closes a registered terminal of the running window
\* w1 removes its record at once: the terminal has no index any more, no record with
\* its id is in the local records or in the snapshot that step publishes, and the
\* other records and the other terminals' indexes are as they were.
C26_ClosedIsRemovedAtOnce ==
    [][\A t \in Terminals :
          ( /\ alive["w1"]
            /\ t \in Range(hostTerminals["w1"])
            /\ t \notin Range(hostTerminals'["w1"])
            /\ t \in DOMAIN terminalIndexMap["w1"] )
          => LET i  == terminalIndexMap["w1"][t]
                 id == RecordId("w1", i)
             IN  /\ t \notin DOMAIN terminalIndexMap'["w1"]
                 /\ \A j \in DOMAIN records'["w1"] : records'["w1"][j].id # id
                 /\ "persist" \in fired'
                 /\ \A k \in 1..Len(globalState'["w1"].terminals) :
                       globalState'["w1"].terminals[k].id # id
                 /\ DOMAIN records'["w1"] = (DOMAIN records["w1"]) \ {i}
                 /\ \A j \in DOMAIN records'["w1"] : records'["w1"][j] = records["w1"][j]
                 /\ \A u \in (DOMAIN terminalIndexMap["w1"]) \ {t} :
                       /\ u \in DOMAIN terminalIndexMap'["w1"]
                       /\ terminalIndexMap'["w1"][u] = terminalIndexMap["w1"][u]]_vars

\* terminal t1, registered first, has been closed while t2 stays open: the snapshot
\* just published holds t2's record alone
C26_Witness ==
    /\ alive["w1"]
    /\ fired = {"persist", "tracker"}
    /\ hostTerminals["w1"] = <<"t2">>
    /\ DOMAIN terminalIndexMap["w1"] = {"t2"}
    /\ DOMAIN records["w1"] = {1}
    /\ Len(globalState["w1"].terminals) = 1
    /\ globalState["w1"].terminals[1].id = RecordId("w1", 1)
    /\ creationIndex["w1"] = 2

\* SpecDebounce: window w1 with a terminal of its own and one of window w2 in its view,
\* and the clock around the multiples of TREE_REFRESH_DEBOUNCE_MS.
DebounceTimes ==
    {0, 1, TREE_REFRESH_DEBOUNCE_MS - 1, TREE_REFRESH_DEBOUNCE_MS,
     TREE_REFRESH_DEBOUNCE_MS + 1, 2 * TREE_REFRESH_DEBOUNCE_MS,
     2 * TREE_REFRESH_DEBOUNCE_MS + 1}

NextDebounce ==
    \/ AdvanceClock(DebounceTimes)
    \/ \E w \in SyncOwners : Activate(w)
    \/ \E w \in SyncOwners : OpenTerminal(w, "t1", "zsh")
    \/ \E w \in SyncOwners : Touch(w, "t1")
    \/ Poll("w1")
    \/ RefreshFire("w1")

SpecDebounce == Init /\ [][NextDebounce]_vars

\* C27: when the refresh callback of a window runs, at least TREE_REFRESH_DEBOUNCE_MS
\* have passed since every earlier refresh of that window and since the last change
\* notification its listener received.
C27_RefreshDebounced ==
    [][\A w \in Owners :
          ("refresh" \in fired' /\ refresh'[w] # refresh[w])
          => /\ \A r \in refresh[w].refreshed : now - r >= TREE_REFRESH_DEBOUNCE_MS
             /\ \A n \in refresh[w].notified : now - n >= TREE_REFRESH_DEBOUNCE_MS]_vars

\* window w1 has refreshed at TREE_REFRESH_DEBOUNCE_MS and, after a change notified at
\* that very instant, again at twice that time; no timeout is pending
C27_Witness ==
    /\ fired = {"refresh"}
    /\ now = 2 * TREE_REFRESH_DEBOUNCE_MS
    /\ refresh["w1"].refreshed = {TREE_REFRESH_DEBOUNCE_MS, 2 * TREE_REFRESH_DEBOUNCE_MS}
    /\ refresh["w1"].notified = {TREE_REFRESH_DEBOUNCE_MS}
    /\ refresh["w1"].timers = {}

\* ------------------------------------------------------------------------
\* The directory resolver on its own
\* ------------------------------------------------------------------------
\* two processes to ask about, and every answer the platform can give for them
CwdInputs ==
    LET pids == <<11, 21>>
    IN  {[phase |-> "input", platform |-> pf, pids |-> pids, run |-> run,
          entries |-> [p \in Range(pids) |-> IF p = pids[1] THEN e1 ELSE e2],
          result |-> UNDEF] :
            pf \in Platforms, run \in LsofRuns(pids), e1 \in ProcEntries,
            e2 \in ProcEntries}

InitCwd ==
    /\ InitProgram
    /\ cwdCall \in CwdInputs

\* resolveCwd(pids[1]); lsof was asked about that process alone
CallResolveCwd ==
    /\ cwdCall.phase = "input"
    /\ \A i \in 1..Len(cwdCall.run.lines) :
          cwdCall.run.lines[i].tag = "p" => cwdCall.run.lines[i].text = cwdCall.pids[1]
    /\ cwdCall' = [cwdCall EXCEPT
                     !.phase = "single",
                     !.result = resolveCwd(cwdCall.platform, cwdCall.run,
                                           cwdCall.entries[cwdCall.pids[1]])]
    /\ UNCHANGED <<now, globalState, alive, hostVars, trackerVars, prevStates,
                   remoteTerminals, issued, lastTick, lastPoll, dirty, inflight, fired,
                   refresh>>

\* batchResolveCwds(pids)
CallBatchResolveCwds ==
    /\ cwdCall.phase = "input"
    /\ cwdCall' = [cwdCall EXCEPT
                     !.phase = "batch",
                     !.result = batchResolveCwds(cwdCall.platform, cwdCall.pids,
                                                 cwdCall.run, cwdCall.entries)]
    /\ UNCHANGED <<now, globalState, alive, hostVars, trackerVars, prevStates,
                   remoteTerminals, issued, lastTick, lastPoll, dirty, inflight, fired,
                   refresh>>

NextCwd ==
    \/ CallResolveCwd
    \/ CallBatchResolveCwds

SpecCwd == InitCwd /\ [][NextCwd]_vars

\* the look-up of pid p fails in the call cwdCall: the platform is not supported, lsof
\* fails, /proc has no entry for p, or reading the entry raises
LookupFails(p) ==
    \/ cwdCall.platform \notin {"darwin", "linux"}
    \/ cwdCall.platform = "darwin" /\ cwdCall.run.threw
    \/ cwdCall.platform = "linux" /\ ~cwdCall.entries[p].exists
    \/ cwdCall.platform = "linux" /\ cwdCall.entries[p].threw

\* C28: resolveCwd and batchResolveCwds never raise.  When the look-up fails,
\* resolveCwd returns undefined and the Map of batchResolveCwds has no entry for the
\* pid; a pid whose look-up fails leaves the batch call returning normally, with the
\* entries of the pids /proc could answer for.
C28_ResolverNeverRaises ==
    /\ cwdCall.phase = "single"
       => /\ ~cwdCall.result.threw
          /\ LookupFails(cwdCall.pids[1]) => cwdCall.result.value = NoCwd
    /\ cwdCall.phase = "batch"
       => /\ ~cwdCall.result.threw
          /\ \A p \in Range(cwdCall.pids) :
                /\ LookupFails(p) => p \notin DOMAIN cwdCall.result.value
                /\ (cwdCall.platform = "linux" /\ ~LookupFails(p))
                   => /\ p \in DOMAIN cwdCall.result.value
                      /\ cwdCall.result.value[p] = cwdCall.entries[p].target

\* on Linux, reading the entry of the first process raised and the second could be
\* read: the batch call returned the second's directory alone
C28_Witness ==
    /\ cwdCall.phase = "batch"
    /\ cwdCall.platform = "linux"
    /\ cwdCall.entries[cwdCall.pids[1]].threw
    /\ DOMAIN cwdCall.result.value = {cwdCall.pids[2]}
    /\ cwdCall.result.value[cwdCall.pids[2]] = <<"home", "proj">>

\* SpecShutdown: window w1 opens a terminal and shuts down; the terminal's process id
\* settles before or after the shutdown.
NextShutdown ==
    \/ AdvanceClock(SpecTimes)
    \/ Activate("w1")
    \/ Dispose("w1")
    \/ OpenTerminal("w1", "t1", "zsh")
    \/ RenameTerminal("w1", "t1", "bash")
    \/ \E i \in 0..(MaxIdx - 1), cwd \in Cwds \cup {NoCwd} : ResolvePid("w1", i, 10, cwd)
    \/ CheckNameChanges("w1")
    \/ CheckClaudeStates("w1", PsOk(<<"busy", "absent">>), NoCwds, UNDEF)
    \/ Poll("w1")

SpecShutdown == Init /\ [][NextShutdown]_vars

\* C29: once window w1 has been disposed, and until it is activated again, no step is
\* a name check, a classifier tick or a synchronizer tick of w1, and no step writes
\* w1's key in the store: the snapshot dispose() published stays as it is, also when a
\* terminal's processId settles after the shutdown.
C29_NothingAfterDispose ==
    [][(~alive["w1"] /\ ~alive'["w1"] /\ "w1" \in DOMAIN globalState)
       => /\ lastTick'.w # "w1"
          /\ lastPoll'.w # "w1"
          /\ \A i \in (DOMAIN records["w1"]) \cap (DOMAIN records'["w1"]) :
                records'["w1"][i].name = records["w1"][i].name
          /\ "persist" \notin fired'
          /\ "w1" \in DOMAIN globalState'
          /\ globalState'["w1"] = globalState["w1"]]_vars

\* C30: a tick that finds, under a root, a Claude descendant whose CPU is above
\* CPU_GENERATING_THRESHOLD returns generating for the root and leaves the memory
\* {generating, now}, whether the memory before was absent, idle, generating or
\* approval.
C30_BusyIsGenerating ==
    \A pid \in TermPids :
       ( /\ Ticked("w1")
         /\ TickFound(pid)
         /\ Found(lastTick.ps.key, pid).cpu > CPU_GENERATING_THRESHOLD )
       => /\ StateIs("w1", pid, "generating")
          /\ pid \in DOMAIN prevStates["w1"]
          /\ prevStates["w1"][pid] = [state |-> "generating", since |-> now]

\* a tick at time 1 met a busy descendant and the memory {generating, 0} of the tick
\* before: the memory now carries the time of this tick
C30_Witness ==
    /\ now = 1
    /\ Ticked("w1")
    /\ TickFound(10)
    /\ Found(lastTick.ps.key, 10).cpu > CPU_GENERATING_THRESHOLD
    /\ Before(10, "generating")
    /\ lastTick.before[10].since = 0
    /\ StateIs("w1", 10, "generating")
    /\ prevStates["w1"][10] = [state |-> "generating", since |-> 1]

\* C31: a tick that finds a Claude descendant whose CPU is not above the threshold,
\* on a root whose memory is absent or idle, returns idle; it writes the memory
\* {idle, now} when there was none and leaves an idle memory as it was, with its
\* since.
C31_IdleMemoryNotRewritten ==
    \A pid \in TermPids :
       ( /\ Ticked("w1")
         /\ TickQuiet(pid)
         /\ (pid \notin DOMAIN lastTick.before \/ Before(pid, "idle")) )
       => /\ StateIs("w1", pid, "idle")
          /\ pid \in DOMAIN prevStates["w1"]
          /\ prevStates["w1"][pid] =
                (IF pid \in DOMAIN lastTick.before THEN lastTick.before[pid]
                 ELSE [state |-> "idle", since |-> now])

\* a tick after APPROVAL_TIMEOUT_MS met a quiet descendant and the memory {idle, 0}:
\* the memory still carries the time 0
C31_Witness ==
    /\ now = APPROVAL_TIMEOUT_MS
    /\ Ticked("w1")
    /\ TickQuiet(10)
    /\ Before(10, "idle")
    /\ lastTick.before[10].since = 0
    /\ StateIs("w1", 10, "idle")
    /\ prevStates["w1"][10] = [state |-> "idle", since |-> 0]

\* SpecMerge: three windows, each with a terminal of its own, that publish while the
\* clock passes STALE_WINDOW_THRESHOLD_MS; window w2 polls.
MergeTimes == {0, STALE_WINDOW_THRESHOLD_MS + 1}

NextMerge ==
    \/ AdvanceClock(MergeTimes)
    \/ \E w \in Owners : Activate(w)
    \/ \E w \in Owners : OpenTerminal(w, "t1", "zsh")
    \/ Poll("w2")

SpecMerge == Init /\ [][NextMerge]_vars

\* { ...t, isLocal: false } of a stored entity t
Tagged(t) == [f \in (DOMAIN t) \cup {"isLocal"} |-> IF f = "isLocal" THEN FALSE ELSE t[f]]

\* the keys, in enumeration order, of the foreign snapshots that reader r found not
\* stale at its last tick
FreshForeign(r) ==
    SelectSeq(KeyOrder,
              LAMBDA k : /\ k \in DOMAIN lastPoll.before
                         /\ k # r
                         /\ now - lastPoll.before[k].lastUpdated <= STALE_WINDOW_THRESHOLD_MS)

\* C32: after a synchronizer tick of reader r, the remote view holds no entity of r's
\* own snapshot, every entry of it has isLocal false, and it is the concatenation, in
\* the order of globalState.keys(), of the entity lists of the foreign snapshots that
\* were not stale at the tick.
C32_RemoteViewIsFreshForeign ==
    \A r \in Owners :
       lastPoll.w = r
       => LET ks   == FreshForeign(r)
              view == remoteTerminals[r]
              list(k) == lastPoll.before[k].terminals
              at(j) == IF Len(ks) >= 1 /\ j <= Len(list(ks[1])) THEN list(ks[1])[j]
                       ELSE list(ks[2])[j - Len(list(ks[1]))]
          IN  /\ \A j \in 1..Len(view) :
                    /\ view[j].windowId # r
                    /\ "isLocal" \in DOMAIN view[j]
                    /\ view[j].isLocal = FALSE
              /\ Len(view) = (IF Len(ks) >= 1 THEN Len(list(ks[1])) ELSE 0)
                              + (IF Len(ks) >= 2 THEN Len(list(ks[2])) ELSE 0)
              /\ \A j \in 1..Len(view) : view[j] = Tagged(at(j))

\* reader w2, which has a snapshot of its own in the store, has merged the terminal of
\* w1 and then the terminal of w3
C32_Witness ==
    /\ lastPoll.w = "w2"
    /\ "w2" \in DOMAIN lastPoll.before
    /\ lastPoll.before["w2"].terminals # <<>>
    /\ Len(remoteTerminals["w2"]) = 2
    /\ remoteTerminals["w2"][1].windowId = "w1"
    /\ remoteTerminals["w2"][2].windowId = "w3"

\* ------------------------------------------------------------------------
\* The diagnostics of a detected process
\* ------------------------------------------------------------------------
RECURSIVE Reach(_, _)
\* the pids reachable from the set S along parent-to-children edges, S included
Reach(procs, S) ==
    LET more == S \cup {procs[i].pid : i \in {j \in DOMAIN procs : procs[j].ppid \in S}}
    IN  IF more = S THEN S ELSE Reach(procs, more)
\* the strict descendants of pid in the sample
StrictDescendants(procs, pid) ==
    Reach(procs, {procs[i].pid : i \in {j \in DOMAIN procs : procs[j].ppid = pid}})

RECURSIVE Preorder(_, _)
\* the depth-first traversal of the subtrees under the pids of seq, each pid before
\* its own children, children in sample order
Preorder(procs, seq) ==
    IF seq = <<>> THEN <<>>
    ELSE <<Head(seq)>> \o Preorder(procs, ChildrenOf(procs, Head(seq)))
                      \o Preorder(procs, Tail(seq))
\* the names the command lines of the traversal yield, position by position
\* (<<>> where a command line yields none)
NamesAlong(procs, order) == [i \in DOMAIN order |-> McpName(ProcOf(procs, order[i]).command)]
\* the position at which name first occurs in names
FirstAt(names, name) ==
    CHOOSE i \in DOMAIN names : names[i] = name /\ \A j \in 1..(i - 1) : names[j] # name

\* C33: the descendant count of a detected process is the number of its strict
\* descendants in the sample, and its sub-component list holds every name found in
\* a descendant's command line exactly once, in order of first occurrence in the
\* depth-first traversal.
C33_CountsAndNamesDescendants ==
    \A pid \in TermPids :
       (Ticked("w1") /\ TickFound(pid))
       => LET procs == Sample(lastTick.ps.key[1], lastTick.ps.key[2])
          IN  \A i \in DOMAIN records["w1"] :
                 records["w1"][i].processId = pid
                 => LET info  == records["w1"][i].claudeInfo
                        names == NamesAlong(procs, Preorder(procs, ChildrenOf(procs, info.pid)))
                        list  == info.mcpServers
                    IN  /\ info.childProcessCount
                             = Cardinality(StrictDescendants(procs, info.pid))
                        /\ Range(list) = Range(names) \ {<<>>}
                        /\ \A a, b \in DOMAIN list :
                              a < b => FirstAt(names, list[a]) < FirstAt(names, list[b])

\* a tick found a process with four descendants, two of them naming the same server
C33_Witness ==
    /\ Ticked("w1") /\ TickFound(10)
    /\ lastTick.ps.key[1] = "servers"
    /\ \E i \in DOMAIN records["w1"] :
          /\ records["w1"][i].processId = 10
          /\ records["w1"][i].claudeInfo.childProcessCount = 4
          /\ records["w1"][i].claudeInfo.mcpServers = << <<"g","i","t">>, <<"f","s">> >>

\* C34: whenever a classifier tick leaves a local record with a classifier state or
\* a display-relevant diagnostic (resolved directory, descendant count, contents of
\* the sub-component list, last prompt) that differs from the value recorded on the
\* previous tick, the tick fires a change notification.
C34_NotifiesOnEveryListedChange ==
    Ticked("w1")
    => ( (\E i \in DOMAIN lastTick.recs :
             \/ records["w1"][i].claudeState # lastTick.recs[i].claudeState
             \/ Listed(records["w1"][i].claudeInfo) # Listed(lastTick.recs[i].claudeInfo))
         => "tracker" \in fired )

\* C35: a classifier tick records the state approval for an entity only if the state
\* recorded for it after the preceding tick was generating or approval, in every
\* sequence of ticks, ticks whose process snapshot failed included.
C35_ApprovalOnlyAfterGeneratingOrApproval ==
    Ticked("w1")
    => \A i \in DOMAIN lastTick.recs :
          records["w1"][i].claudeState = "approval"
          => lastTick.recs[i].claudeState \in {"generating", "approval"}

\* C36: when a terminal is unregistered before the resolution of its process id
\* completes, the completion changes nothing: no record is created or revived, no
\* field of another record is written, the store is not written and no change
\* notification is fired or scheduled.
C36_LateResolutionChangesNothing ==
    [][\A i \in 0..(MaxIdx - 1), pid \in {10, NoPid}, cwd \in Cwds \cup {NoCwd} :
          (ResolvePid("w1", i, pid, cwd) /\ i \notin DOMAIN records["w1"])
          => /\ records' = records
             /\ terminalIndexMap' = terminalIndexMap
             /\ creationIndex' = creationIndex
             /\ globalState' = globalState
             /\ fired' = {}
             /\ refresh' = refresh]_vars

\* terminal t1 was opened and closed at time 0 and its process id has settled: the
\* first index is spent, nothing is pending, no record exists, the published snapshot
\* is the empty one of the close, and the last step fired nothing
C36_Witness ==
    /\ alive["w1"]
    /\ now = 0
    /\ hostTerminals["w1"] = <<>>
    /\ creationIndex["w1"] = 1
    /\ pending["w1"] = {}
    /\ DOMAIN records["w1"] = {}
    /\ globalState["w1"].terminals = <<>>
    /\ fired = {}

\* C37: after every tick whose process snapshot succeeded, for every root under which
\* a Claude descendant was found, the state in the detector memory for the root is
\* the state the tick returned for it, and that state is idle, generating or
\* approval; none is returned only for roots without a detected descendant.
C37_MemoryAgreesWithReturnedState ==
    \A pid \in TermPids :
       (Ticked("w1") /\ lastTick.ps.ok /\ pid \in Range(lastTick.roots))
       => /\ TickFound(pid)
             => /\ pid \in DOMAIN prevStates["w1"]
                /\ prevStates["w1"][pid].state \in {"idle", "generating", "approval"}
                /\ StateIs("w1", pid, prevStates["w1"][pid].state)
          /\ StateIs("w1", pid, "none") => TickMissed(pid)

\* a tick at time APPROVAL_TIMEOUT_MS + 1 met a quiet descendant and the memory
\* {approval, 0}: it returned idle and the memory says idle
C37_Witness ==
    /\ now = APPROVAL_TIMEOUT_MS + 1
    /\ Ticked("w1")
    /\ TickQuiet(10)
    /\ Before(10, "approval")
    /\ lastTick.before[10].since = 0
    /\ StateIs("w1", 10, "idle")
    /\ prevStates["w1"][10].state = "idle"

\* WindowManager.getAllTerminals(): the local records, then the remote view
getAllTerminals(w) == getLocalRecords(records[w]) \o remoteTerminals[w]

\* C38: in every reachable state of windows with distinct window ids, the merged view
\* handed to the tree (local records followed by the remote view) holds no two entries
\* with the same id.
C38_MergedViewHasDistinctIds ==
    \A w \in Owners :
       LET view == getAllTerminals(w)
       IN  \A i, j \in 1..Len(view) : i # j => view[i].id # view[j].id

\* the view of w2 holds its own terminal, then the terminals of w1 and of w3
C38_Witness ==
    LET view == getAllTerminals("w2")
    IN  /\ alive["w2"]
        /\ Len(view) = 3
        /\ view[1].id = RecordId("w2", 0)
        /\ view[2].id = RecordId("w1", 0)
        /\ view[3].id = RecordId("w3", 0)

\* the step modifies no record, writes nothing to the store and fires or schedules
\* no notification
NothingWritten ==
    /\ UNCHANGED <<trackerVars, globalState, refresh>>
    /\ fired' = {}

\* C39: touch on a terminal that is not registered, and setDisplayName with an id that
\* matches no local record, leave the store as it is: no record is modified, nothing
\* is published and no change notification is fired.
C39_MissesChangeNothing ==
    [][/\ ("t2" \notin DOMAIN terminalIndexMap["w1"] /\ Touch("w1", "t2"))
          => NothingWritten
       /\ \A id \in RecordIds("w1"), n \in NameInputs \cup {UNDEF} :
             ( /\ \A i \in DOMAIN records["w1"] : records["w1"][i].id # id
               /\ SetDisplayName("w1", id, n) )
             => NothingWritten]_vars

\* terminal t1 is registered, its process id still pending, and t2 is not: the last
\* step, at time 0, was neither a registration nor a tick nor a poll and fired nothing
C39_Witness ==
    /\ alive["w1"]
    /\ now = 0
    /\ hostTerminals["w1"] = <<"t1">>
    /\ DOMAIN terminalIndexMap["w1"] = {"t1"}
    /\ DOMAIN records["w1"] = {0}
    /\ creationIndex["w1"] = 1
    /\ pending["w1"] = {0}
    /\ fired = {}
    /\ lastTick = NoTick
    /\ lastPoll = NoPoll

\* C40: a name-check tick changes nothing but the raw name of the records whose
\* terminal's name in the host differs from it, never lastActivity, displayName or
\* the custom flag, and it publishes and fires a change notification exactly when at
\* least one raw name changed.
C40_NameCheckTouchesOnlyNames ==
    [][CheckNameChanges("w1")
       => LET map     == terminalIndexMap["w1"]
              differs == {i \in DOMAIN records["w1"] :
                             \E t \in DOMAIN map :
                                map[t] = i /\ hostName["w1"][t] # records["w1"][i].name}
          IN  /\ DOMAIN records'["w1"] = DOMAIN records["w1"]
              /\ \A i \in DOMAIN records["w1"] :
                    /\ records'["w1"][i]
                          = [records["w1"][i] EXCEPT !.name = records'["w1"][i].name]
                    /\ i \notin differs => records'["w1"][i].name = records["w1"][i].name
                    /\ i \in differs
                       => \E t \in DOMAIN map :
                             map[t] = i /\ records'["w1"][i].name = hostName["w1"][t]
              /\ "persist" \in fired' <=> differs # {}
              /\ "tracker" \in fired' <=> differs # {}
              /\ differs = {} => globalState' = globalState /\ refresh' = refresh
              /\ differs # {}
                 => \A k \in 1..Len(getLocalRecords(records'["w1"])) :
                       globalState'["w1"].terminals[k].name
                          = getLocalRecords(records'["w1"])[k].name]_vars

\* the terminal registered at time 0, never touched, never named and with its process
\* id pending, carries at time 1 the name the host gave it since: the name check has
\* just published it
C40_Witness ==
    /\ alive["w1"]
    /\ now = 1
    /\ DOMAIN records["w1"] = {0}
    /\ records["w1"][0].name = "bash"
    /\ records["w1"][0].createdAt = 0
    /\ records["w1"][0].lastActivity = 0
    /\ records["w1"][0].displayNameIsCustom = UNDEF
    /\ pending["w1"] = {0}
    /\ lastTick = NoTick
    /\ fired = {"persist", "tracker"}
    /\ globalState["w1"].terminals[1].name = "bash"
    /\ globalState["w1"].lastUpdated = 1
====
